---- MODULE Spec2Model ----
(***************************************************************************)
(* Model of the CS-Profiler fault-injection campaign engine:               *)
(*   - the SimpleSerial packet codec of src/simpleserial/simpleserial.py   *)
(*     (COBS stuffing, CRC-8, send_packet / read_packet), and              *)
(*   - the campaign loop of src/profile_target.py (run_campaign,           *)
(*     test_position, test_execution) with the ChipShouter helper of       *)
(*     src/CSUtils.py.                                                     *)
(* Python exceptions are modelled as values: every operator that models a  *)
(* function returns a record whose field exc is "none" or the exception.   *)
(***************************************************************************)
EXTENDS Integers, Sequences, FiniteSets, TLC

VARIABLES
    \* ---- codec harness (SpecCodec) ----
    cpc,          \* position of the codec harness
    frame_cmd,    \* command byte given to send_packet
    frame_byte_arg, \* frame_byte argument of the last _cobs_stuff_data call
    buf,          \* byte sequence under test (COBS input / packet payload)
    stuffed,      \* result of _cobs_stuff_data(buf)
    unstuffed,    \* result of _cobs_unstuff_data(stuffed)
    transport,    \* bytes written to the serial driver and not yet read
    sent,         \* outcome of send_packet
    received,     \* outcome of read_packet
    _flush_on_err,\* TargetSerial._flush_on_err
    \* ---- campaign (Spec) ----
    pc,                 \* position of run_campaign / test_position / test_execution
    positions,          \* CSProfiler.positions
    glitch_configs,     \* CSProfiler.glitch_configs
    result_types,       \* keys of CSProfiler.result_types
    simpleserial_config,\* CSProfiler.simpleserial_config: packets (command, handler)
    valid_commands,     \* CSProfiler.valid_commands
    _test_execution,    \* CSProfiler._test_execution: the replacement of test_execution, None without one
    _results,           \* CSProfiler._results: the result sets every campaign starts from
    results,            \* CSProfiler.results: one dict per glitch config
    catched_errors,     \* CSProfiler.catched_errors
    position_index,     \* loop variable of run_campaign
    config_index,       \* loop variable of test_position
    execution_index,    \* local of test_position
    retry_count,        \* local of test_position
    test_execution_calls, \* calls of test_execution made by the while loop of line 463
    attempt,            \* locals of the attempt in progress (result or packet)
    exc,                \* the exception in flight, None when there is none
    serial_rx,          \* bytes the target sent that were not read yet
    cs_armed,           \* whether the ChipShouter is armed
    calls,              \* collaborator calls made by the most recent step
    files,              \* result files written by store_results
    printed,            \* the info lines test_position printed, one per counted attempt
    status              \* return value of run_campaign, None while running

codec_vars == <<cpc, frame_cmd, frame_byte_arg, buf, stuffed, unstuffed, transport, sent, received,
                _flush_on_err>>

profiler_vars == <<positions, glitch_configs, result_types, simpleserial_config, valid_commands,
                   _test_execution, _results>>

campaign_vars == <<pc, profiler_vars, results, catched_errors, position_index, config_index,
                   execution_index, retry_count, test_execution_calls, attempt, exc, serial_rx,
                   cs_armed, calls, files, printed, status>>

vars == <<codec_vars, campaign_vars>>

----------------------------------------------------------------------------
(* Bounds of the codec inputs *)

\* longest prefix / suffix placed around a run of non-zero bytes
MaxAffix == 2
\* runs of non-zero bytes have a length within RunSlack of the longest block
RunSlack == 1

\* 0xFF: the code byte at which _cobs_stuff_data closes a block
BlockCodeMax == 255
\* CRC polynomial
CrcPoly == 77
\* frame byte / packet terminator
FrameByte == 0

----------------------------------------------------------------------------
(* Python values *)

None == [t |-> "None"]
Bytes(s) == [t |-> "bytes", v |-> s]
NoExc == "none"
\* outcome of a call that was not made yet
NotRun == [exc |-> "not run"]

\* the byte values the inputs are drawn from
ByteVals == {0, 1, 255}

Repeat(b, n) == [i \in 1..n |-> b]

RECURSIVE SeqsUpTo(_, _)
SeqsUpTo(S, n) ==
    IF n = 0 THEN {<<>>}
    ELSE LET shorter == SeqsUpTo(S, n - 1)
         IN shorter \cup {Append(s, x) : s \in shorter, x \in S}

Affixes == SeqsUpTo(ByteVals, MaxAffix)
RunLens == {0} \cup ((BlockCodeMax - 1 - RunSlack) .. (BlockCodeMax - 1 + RunSlack))
ByteInputs == {pre \o Repeat(7, n) \o suf : pre \in Affixes, n \in RunLens, suf \in Affixes}
Commands == {0, 1, 115, 255}

----------------------------------------------------------------------------
(* 8-bit arithmetic *)

\* TRUE; evaluating it computes v before v is passed on, which keeps the
\* evaluation of the loops below shallow
Strict(v) == v = v

RECURSIVE XorBits(_, _, _)
XorBits(a, b, n) ==
    IF n = 0 THEN 0
    ELSE (((a % 2) + (b % 2)) % 2) + 2 * XorBits(a \div 2, b \div 2, n - 1)

Xor8(a, b) == XorBits(a, b, 8)

\* one of the 8 shift steps of _calc_crc
CrcShift(crc) ==
    IF crc >= 128 THEN Xor8((crc * 2) % 256, CrcPoly) ELSE (crc * 2) % 256

RECURSIVE CrcShifts(_, _)
CrcShifts(crc, n) ==
    IF n = 0 THEN crc
    ELSE LET next == CrcShift(crc)
         IN IF Strict(next) THEN CrcShifts(next, n - 1) ELSE next

\* the body of `for b in buf`: crc ^= b, then the 8 shift steps
CrcByte(crc, b) ==
    LET x == Xor8(crc, b) IN IF Strict(x) THEN CrcShifts(x, 8) ELSE x

\* the loop over data[lo..hi], split in halves to keep the evaluation shallow
RECURSIVE CrcRange(_, _, _, _)
CrcRange(crc, data, lo, hi) ==
    IF lo > hi THEN crc
    ELSE IF lo = hi THEN CrcByte(crc, data[lo])
    ELSE LET mid == (lo + hi) \div 2
             left == CrcRange(crc, data, lo, mid)
         IN IF Strict(left) THEN CrcRange(left, data, mid + 1, hi) ELSE left

_calc_crc(data) == CrcRange(0, data, 1, Len(data))

----------------------------------------------------------------------------
(* COBS *)

\* the body of the `for b in buf` loop of _cobs_stuff_data, on the loop state
\* (out, code, code_index); code_index is 1-based here
StuffByte(st, b, frame_byte) ==
    LET close == (b = frame_byte \/ st.code = BlockCodeMax)
        out1 == IF close THEN Append([st.out EXCEPT ![st.code_index] = st.code], 0)
                ELSE st.out
        idx1 == IF close THEN Len(st.out) + 1 ELSE st.code_index
        code1 == IF close THEN 1 ELSE st.code
    IN IF b # frame_byte
       THEN [out |-> Append(out1, b), code |-> code1 + 1, code_index |-> idx1]
       ELSE [out |-> out1, code |-> code1, code_index |-> idx1]

\* the loop over data[lo..hi], split in halves to keep the evaluation shallow
RECURSIVE StuffRange(_, _, _, _, _)
StuffRange(st, data, lo, hi, frame_byte) ==
    IF lo > hi THEN st
    ELSE IF lo = hi THEN StuffByte(st, data[lo], frame_byte)
    ELSE LET mid == (lo + hi) \div 2
             left == StuffRange(st, data, lo, mid, frame_byte)
         IN IF Strict(left) THEN StuffRange(left, data, mid + 1, hi, frame_byte) ELSE left

_cobs_stuff_data(data, frame_byte) ==
    IF data = <<>> THEN <<>>
    ELSE LET st == StuffRange([out |-> <<0>>, code |-> 1, code_index |-> 1],
                              data, 1, Len(data), frame_byte)
         IN [st.out EXCEPT ![st.code_index] = st.code]      \* finalize last block

\* a block that would read past the end is copied as far as the buffer goes
RECURSIVE UnstuffLoop_Truncating(_, _, _, _)
UnstuffLoop_Truncating(enc, index, out, frame_byte) ==
    IF index > Len(enc) THEN [exc |-> NoExc, val |-> out]
    ELSE IF enc[index] = 0
    THEN [exc |-> "ValueError: Invalid COBS: code byte cannot be 0", val |-> <<>>]
    ELSE LET end == index + enc[index]
             last == IF end - 1 > Len(enc) THEN Len(enc) ELSE end - 1
         IN UnstuffLoop_Truncating(enc, end, out \o SubSeq(enc, index + 1, last), frame_byte)

\* the `while index < length` loop of _cobs_unstuff_data; index is 1-based here
RECURSIVE UnstuffLoop(_, _, _, _)
UnstuffLoop(enc, index, out, frame_byte) ==
    IF index > Len(enc) THEN [exc |-> NoExc, val |-> out]
    ELSE LET code == enc[index]
             start == index + 1
             end == start + code - 1      \* first position after the block
         IN IF code = 0
            THEN [exc |-> "ValueError: Invalid COBS: code byte cannot be 0", val |-> <<>>]
            ELSE IF end > Len(enc) + 1
            THEN [exc |-> "ValueError: Invalid COBS: block extends past end of buffer", val |-> <<>>]
            ELSE LET copied == out \o SubSeq(enc, start, end - 1)
                     out1 == IF code < BlockCodeMax /\ end <= Len(enc)
                             THEN Append(copied, frame_byte) ELSE copied
                 IN UnstuffLoop(enc, end, out1, frame_byte)

_cobs_unstuff_data(enc, frame_byte) ==
    IF enc = <<>> THEN [exc |-> NoExc, val |-> <<>>]
    ELSE UnstuffLoop(enc, 1, <<>>, frame_byte)

----------------------------------------------------------------------------
(* Packets *)

type_convert_cmd(c) ==
    IF c >= 0 /\ c <= 255 THEN [exc |-> NoExc, val |-> c]
    ELSE [exc |-> "ValueError: Command out of byte range (0-255)", val |-> c]

\* send_packet: what it hands to write(), or the exception it raises.
\* data is None or Bytes(s).
send_packet(c, data) ==
    LET conv == type_convert_cmd(c)
        empty == (data = None \/ data = Bytes(<<>>))     \* `if not data`
    IN IF conv.exc # NoExc THEN [exc |-> conv.exc, written |-> <<>>]
       ELSE IF empty
       THEN \* buf = bytearray([cmd, 0]); self.write(buf, timeout)
            [exc |-> NoExc, written |-> <<c, 0>>]
       ELSE LET crc == _calc_crc(data.v)
                block == Append(data.v, crc)
                encoded == _cobs_stuff_data(block, FrameByte)
                pkt == <<c>> \o encoded \o <<0>>
            IN \* line 531 is self.write(buf, timeout): pkt is built but never
               \* written, and buf is a local that is bound only on the other
               \* path, so the statement raises before write() is entered
               [exc |-> "UnboundLocalError: buf", written |-> <<>>]

EndsWith(s, suffix) ==
    Len(s) >= Len(suffix) /\ SubSeq(s, Len(s) - Len(suffix) + 1, Len(s)) = suffix

\* the loop does not stop at the match: every byte is consumed
ReadByte_KeepReading(st, b, sequence) ==
    [result |-> Append(st.result, b),
     matched |-> st.matched \/ EndsWith(Append(st.result, b), sequence)]

\* one pass of the read loop of read_until on the next byte of the stream:
\* the byte is consumed and appended unless the sequence was already matched
ReadByte(st, b, sequence) ==
    IF st.matched THEN st
    ELSE LET result == Append(st.result, b)
         IN [result |-> result, matched |-> EndsWith(result, sequence)]

RECURSIVE ReadRange(_, _, _, _, _)
ReadRange(st, stream, lo, hi, sequence) ==
    IF lo > hi THEN st
    ELSE IF lo = hi THEN ReadByte(st, stream[lo], sequence)
    ELSE LET mid == (lo + hi) \div 2
             left == ReadRange(st, stream, lo, mid, sequence)
         IN IF Strict(left) THEN ReadRange(left, stream, mid + 1, hi, sequence) ELSE left

\* read_until: the bytes consumed from stream. Bytes are consumed one at a
\* time until the last Len(sequence) bytes equal sequence; when the stream
\* runs dry the timeout ends the loop.
read_until(stream, sequence) ==
    ReadRange([result |-> <<>>, matched |-> FALSE], stream, 1, Len(stream), sequence).result

\* read_packet on the bytes waiting in the transport
read_packet(stream) ==
    LET raw == read_until(stream, <<FrameByte>>)
        rest == SubSeq(stream, Len(raw) + 1, Len(stream))
        body == SubSeq(raw, 1, Len(raw) - 1)          \* buf[:-1]
    IN IF ~EndsWith(raw, <<FrameByte>>)
       THEN [exc |-> "TimeoutError: receive_packet: Timeout waiting for packet terminator",
             cmd |-> 0, data |-> None, rest |-> rest]
       ELSE IF Len(body) = 1
       THEN [exc |-> NoExc, cmd |-> body[1], data |-> None, rest |-> rest]
       ELSE IF Len(body) = 0
       THEN [exc |-> "IndexError", cmd |-> 0, data |-> None, rest |-> rest]   \* cmd = buf[0]
       ELSE LET dec == _cobs_unstuff_data(SubSeq(body, 2, Len(body)), FrameByte)
            IN IF dec.exc # NoExc
               THEN [exc |-> dec.exc, cmd |-> 0, data |-> None, rest |-> rest]
               ELSE IF Len(dec.val) < 1
               THEN [exc |-> "ValueError: read_packet: decode failed",
                     cmd |-> 0, data |-> None, rest |-> rest]
               ELSE LET data == SubSeq(dec.val, 1, Len(dec.val) - 1)
                        crc == dec.val[Len(dec.val)]
                    IN IF _calc_crc(data) # crc
                       THEN [exc |-> "ValueError: read_packet: CRC mismatch",
                             cmd |-> 0, data |-> None, rest |-> rest]
                       ELSE [exc |-> NoExc, cmd |-> body[1], data |-> Bytes(data), rest |-> rest]

----------------------------------------------------------------------------
(* Campaign: bounds and inputs *)

\* largest number of positions of a campaign
NumPositions == 2
\* largest number of glitch configs of a campaign
NumConfigs == 2
\* largest num_executions of a glitch config
NumExecutions == 3
\* largest number of executions a campaign asks for in all
MaxAttempts == 3
\* the environment (devices, target) misbehaves at most this often in a run
MaxErrors == 4
\* SIGINTs whose SystemExit is swallowed in one campaign
MaxSwallowed == 1

\* retries allowed per (position, config)
MaxRetries == 3
\* attempts of the tenacity retry around ChipShouter.clear_faults
ClearFaultsAttempts == 3
\* retries of CSProfiler.reset_target
ResetRetries == 3

\* command bytes: ord("s"), ord("e"), ord("r"), ord("f"), and ord("c") for a
\* packet the caller registers with a handler of their own
CmdS == 115
CmdE == 101
CmdR == 114
CmdF == 102
CmdC == 99

Str(s) == [t |-> "str", v |-> s]
IntVal(n) == [t |-> "int", v |-> n]
List(s) == [t |-> "list", v |-> s]
\* a handler result (category, extradata)
Tuple2(a, b) == [t |-> "tuple", v |-> <<a, b>>]
\* extradata as a handler parses it from the packet payload
Dict(payload) == [t |-> "dict", v |-> payload]

\* exceptions: type and str(e); a tenacity RetryError carries the exception of
\* its last attempt
Exc(type, msg) == [type |-> type, msg |-> msg, last |-> None]
RetryError(inner) == [type |-> "RetryError", msg |-> "RetryError[" \o inner.msg \o "]",
                      last |-> inner]

ErrFaults == "ChipShouter has faults!"
ErrNoResponse == "No response from shouter."
ErrClearFaultsKnown == "Failed to clear ChipSHOUTER faults!"
ErrResetKnown == "ChipWhisperer: reset_target timed out"
ErrArmTimeout == "ChipShouter: Arming failed due to timeout!"
ErrTriggerSafe == "ChipShouter is not ready for trigger (trigger_safe failed)!"

\* what cs.faults_current reads as while clear_faults cannot clear it
FaultsCurrent == {"['fault_overtemp']"}

\* RuntimeError of ChipShouter.clear_faults
ClearFaultsError(current) ==
    Exc("RuntimeError", "Failed to clear ChipSHOUTER faults: " \o current \o "!")

\* ResetTimeoutError of CSProfiler.reset_target
ResetTimeoutError == Exc("ResetTimeoutError", "Failed to reset target after 3 tries!")

DefaultResultTypes ==
    {"nofaults", "faults", "crashes", "resets", "soft_bricked", "hard_bricked", "skipped"}

\* "num_<key>"
NumKey(key) == "num_" \o key

\* CSProfiler._results: for each config, num_<key> -> [0] * num_positions
InitialResults(types, npos, nconf) ==
    [c \in 1..nconf |-> [k \in {NumKey(t) : t \in types} |-> List([p \in 1..npos |-> 0])]]

Packet(command, handler) == [command |-> command, handler |-> handler]

\* the default simpleserial_config of __init__; "s" has no external handler
DefaultSimpleSerialConfig ==
    << Packet(CmdS, "SimpleSerialPacket.handler"),
       Packet(CmdE, "nofaultPacketHandler"),
       Packet(CmdR, "resetPacketHandler"),
       Packet(CmdF, "faultPacketHandler") >>

\* pulse_repeats of a fault train that fits in dead_timeout, and of one that
\* does not: (40 + 50) ns * 2000000 = 180 ms against 100 ms
FewRepeats == 2
ManyRepeats == 2000000

\* a glitch config: times in ns, dead_timeout in ms
GlitchConfig(n, repeats) ==
    [pulse_width |-> 40, pulse_spacing |-> 50, pulse_repeats |-> repeats,
     dead_timeout |-> 100, num_executions |-> n]

\* environment misbehaviour so far in this run: the errors logged
ErrorsSoFar == Len(catched_errors)
MayFail == ErrorsSoFar < MaxErrors

----------------------------------------------------------------------------
(* Python dict and list operations on a config's result set *)

\* d[key][index] += 1  (index 0-based)
\* the increment lands on the first position whatever the index
IncrementAt_FirstCounter(d, key, index) ==
    IF key \notin DOMAIN d
    THEN [exc |-> Exc("KeyError", "'" \o key \o "'"), d |-> d]
    ELSE [exc |-> None, d |-> [d EXCEPT !["num_crashes"].v[1] = @ + 1]]

IncrementAt(d, key, index) ==
    IF key \notin DOMAIN d
    THEN [exc |-> Exc("KeyError", "'" \o key \o "'"), d |-> d]
    ELSE IF d[key].t # "list"
    THEN [exc |-> Exc("TypeError", "'" \o d[key].t \o "' object is not subscriptable"), d |-> d]
    ELSE IF index + 1 > Len(d[key].v)
    THEN [exc |-> Exc("IndexError", "list index out of range"), d |-> d]
    ELSE [exc |-> None, d |-> [d EXCEPT ![key].v[index + 1] = @ + 1]]

\* d[key] += 1
PlusEqOne(d, key) ==
    IF key \notin DOMAIN d
    THEN [exc |-> Exc("KeyError", "'" \o key \o "'"), d |-> d]
    ELSE IF d[key].t # "int"
    THEN [exc |-> Exc("TypeError", "can only concatenate list (not \"int\") to list"), d |-> d]
    ELSE [exc |-> None, d |-> [d EXCEPT ![key] = IntVal(@.v + 1)]]

\* d[key] = value
SetItem(d, key, value) ==
    [k \in DOMAIN d \cup {key} |-> IF k = key THEN value ELSE d[k]]

----------------------------------------------------------------------------
(* Campaign: collaborators *)

\* one try of reset_target: pulse nRST, then read until the reset sequence
ResetTry(ok) ==
    <<"cw.reset_target", IF ok THEN "read_until: reset sequence" ELSE "read_until: timeout">>

\* n tries in a row that the target does not answer
FailedResetTries(n) == [i \in 1..(2 * n) |-> ResetTry(FALSE)[((i - 1) % 2) + 1]]

\* CSProfiler.reset_target: the target answers the reset sequence on try
\* `answer` (0: on none of the tries)
reset_target(answer) ==
    IF answer \in 1..ResetRetries
    THEN [exc |-> None, calls |-> FailedResetTries(answer - 1) \o ResetTry(TRUE)]
    ELSE [exc |-> ResetTimeoutError, calls |-> FailedResetTries(ResetRetries)]

\* on which try the target answers a reset; not answering is a misbehaviour
ResetAnswers == (1..ResetRetries) \cup (IF MayFail THEN {0} ELSE {})

\* ChipShouter.clear_faults under its retry decorator: the faults clear on
\* attempt `cleared` (0: on none), else the last RuntimeError is wrapped
clear_faults(cleared, current) ==
    IF cleared \in 1..ClearFaultsAttempts
    THEN [exc |-> None,
          calls |-> [i \in 1..cleared |-> IF i < cleared THEN "cs.clear_faults: faults persist"
                                         ELSE "cs.clear_faults: cleared"]]
    ELSE [exc |-> RetryError(ClearFaultsError(current)),
          calls |-> [i \in 1..ClearFaultsAttempts |-> "cs.clear_faults: faults persist"]]

\* a frame as the target firmware sends it: [cmd, 0] or
\* [cmd, COBS(payload ++ crc8(payload)), 0]
TargetFrame(c, payload) ==
    IF payload = <<>> THEN <<c, FrameByte>>
    ELSE <<c>> \o _cobs_stuff_data(Append(payload, _calc_crc(payload)), FrameByte)
              \o <<FrameByte>>

\* payload of the packet the caller's handler parses
SamplePayload == <<1, 0, 2>>

\* what the target may answer after the start packet was acknowledged
GoodFrames ==
    { TargetFrame(CmdE, <<>>), TargetFrame(CmdF, <<>>), TargetFrame(CmdR, <<>>),
      TargetFrame(CmdC, SamplePayload) }
\* silence, or a frame with a wrong CRC byte: read_packet raises
UnreadableFrames == { <<>>, <<CmdC, 2, 1, 2, 9, FrameByte>> }
\* the start command echoed, or a command nobody registered
StrayFrames == { TargetFrame(CmdS, <<>>), TargetFrame(120, <<>>) }

\* what the handler registered by the caller for CmdC may do: return
\* (category, extradata), with the extradata an empty dict for one, return a
\* category nobody registered, or report a failed target reset of its own
CustomHandlerResults ==
    { [exc |-> None, val |-> Tuple2("faults", Dict(SamplePayload))],
      [exc |-> None, val |-> Tuple2("nofaults", Dict(<<>>))],
      [exc |-> None, val |-> Str("bogus")],
      [exc |-> None, val |-> Tuple2("faults", [t |-> "float"])],
      [exc |-> None, val |-> Tuple2("faults", Tuple2(1, 2))],
      [exc |-> None, val |-> IntVal(7)],
      [exc |-> Exc("Exception", ErrResetKnown), val |-> None] }

----------------------------------------------------------------------------
(* Campaign: run_campaign and test_position up to the execution loop *)

\* where control goes once the while loop of test_position is left or
\* re-entered with execution index ei: the next attempt, the next config, the
\* next position, or the end of the campaign
Advance(ei) ==
    IF ei < glitch_configs[config_index + 1].num_executions
    THEN [pc |-> "arm", position_index |-> position_index, config_index |-> config_index]
    ELSE IF config_index + 1 < Len(glitch_configs)
    THEN [pc |-> "config", position_index |-> position_index, config_index |-> config_index + 1]
    ELSE IF position_index + 1 < Len(positions)
    THEN [pc |-> "position", position_index |-> position_index + 1, config_index |-> 0]
    ELSE [pc |-> "finish", position_index |-> position_index, config_index |-> config_index]

\* the `break` of the retry limit: the while loop is left
Break == Advance(glitch_configs[config_index + 1].num_executions)

\* the campaigns checked: up to NumPositions positions and NumConfigs configs
\* of up to NumExecutions executions each, MaxAttempts executions in all
\* long: the config whose fault train is too long, 0 for none
Shapes ==
    { shape \in [npos : 1..NumPositions, nconf : 1..NumConfigs, nexec : 1..NumExecutions,
                 long : 0..NumConfigs] :
        /\ shape.npos * shape.nconf * shape.nexec <= MaxAttempts
        /\ shape.long <= shape.nconf }

\* a CSProfiler as constructed, with one more packet registered by the caller
\* through addSimpleSerialCommand, before run_campaign is called
Constructed ==
    /\ \E shape \in Shapes :
         /\ positions = [p \in 1..shape.npos |-> <<p, 0, 0>>]
         /\ glitch_configs = [c \in 1..shape.nconf |->
                                 GlitchConfig(shape.nexec, IF c = shape.long THEN ManyRepeats
                                                           ELSE FewRepeats)]
    /\ result_types = DefaultResultTypes
    /\ simpleserial_config = Append(DefaultSimpleSerialConfig, Packet(CmdC, "custom"))
    /\ valid_commands = <<CmdS, CmdE, CmdR, CmdF, CmdC>>
    /\ _results = InitialResults(result_types, Len(positions), Len(glitch_configs))
    /\ results = <<>>
    /\ catched_errors = <<>>
    /\ position_index = 0 /\ config_index = 0 /\ execution_index = 0 /\ retry_count = 0 /\ test_execution_calls = 0
    /\ attempt = None
    /\ exc = None
    /\ serial_rx = <<>>
    /\ cs_armed = FALSE
    /\ calls = <<>>
    /\ files = <<>>
    /\ printed = <<>>
    /\ status = None

\* no replacement of test_execution was installed
ProfilerInit == Constructed /\ _test_execution = None

CodecOff ==
    /\ cpc = "off" /\ frame_cmd = 0 /\ frame_byte_arg = FrameByte /\ buf = <<>> /\ stuffed = <<>> /\ unstuffed = NotRun
    /\ transport = <<>> /\ sent = NotRun /\ received = NotRun
    /\ _flush_on_err = TRUE

Init == CodecOff /\ pc = "idle" /\ ProfilerInit

\* run_campaign up to the loop over the positions
StartCampaign ==
    /\ pc = "idle"
    /\ calls' = <<"cs.disarm">>                    \* prepare_hardware
    /\ cs_armed' = FALSE
    /\ catched_errors' = <<>>
    /\ results' = _results                        \* copy.deepcopy
    /\ position_index' = 0
    /\ pc' = IF Len(positions) > 0 THEN "position" ELSE "finish"
    /\ UNCHANGED <<codec_vars, profiler_vars, printed, config_index, execution_index, retry_count,
                   attempt, exc, serial_rx, files, status, test_execution_calls>>

\* the body of the loop over the positions up to test_position's loop over the
\* configs: move the table, reset the target
MovePosition ==
    /\ pc = "position"
    /\ \E answer \in ResetAnswers :
         LET r == reset_target(answer)
         IN /\ calls' = <<"table.move_absolute">> \o r.calls
            /\ exc' = r.exc
            /\ pc' = IF r.exc # None THEN "abort"
                     ELSE IF Len(glitch_configs) > 0 THEN "config"
                     ELSE IF position_index + 1 < Len(positions) THEN "position"
                     ELSE "finish"
            /\ position_index' = IF r.exc = None /\ Len(glitch_configs) = 0
                                    /\ position_index + 1 < Len(positions)
                                 THEN position_index + 1 ELSE position_index
    /\ config_index' = 0
    /\ serial_rx' = <<>>
    /\ UNCHANGED <<codec_vars, profiler_vars, printed, results, catched_errors, execution_index,
                   retry_count, attempt, cs_armed, files, status, test_execution_calls>>

\* the assert on the fault train, in nanoseconds against milliseconds
FaultTrainFits(cfg) ==
    (cfg.pulse_width + cfg.pulse_spacing) * cfg.pulse_repeats < cfg.dead_timeout * 1000000

\* the body of the loop over the configs up to the while loop
StartConfig ==
    /\ pc = "config"
    /\ LET cfg == glitch_configs[config_index + 1]
       IN IF ~FaultTrainFits(cfg)
          THEN /\ exc' = Exc("AssertionError", "Faulting longer than dead_timeout")
               /\ pc' = "abort"
               /\ calls' = <<>>
               /\ UNCHANGED <<position_index, config_index, execution_index, retry_count,
                              serial_rx, test_execution_calls>>
          ELSE /\ calls' = <<"configure_chipshouter", "target_serial.flush">>
               /\ serial_rx' = <<>>
               /\ execution_index' = 0
               /\ retry_count' = 0 /\ test_execution_calls' = 0
               /\ pc' = Advance(0).pc
               /\ position_index' = Advance(0).position_index
               /\ config_index' = Advance(0).config_index
               /\ exc' = None
    /\ UNCHANGED <<codec_vars, profiler_vars, printed, results, catched_errors, attempt, cs_armed,
                   files, status>>

----------------------------------------------------------------------------
(* Campaign: test_execution, the default implementation *)

LogEntry(pos, e) == [position_index |-> pos, error |-> e.msg]

\* the index goes back by one
NextExecutionIndex_Back(ei) == ei - 1

\* line 377: next_execution_index = execution_index + 1
NextExecutionIndex(ei) == ei + 1

\* test_execution returns (execution_index + 1, category, extradata) to line 467
Classified(category, extradata) == [result_category |-> category, extradata |-> extradata]

\* what cs.arm() does: arms, finds the device in its fault state, or fails
ArmOutcomes ==
    {[exc |-> None]} \cup
    (IF MayFail
     THEN {[exc |-> Exc("RuntimeError", ErrFaults)], [exc |-> Exc("IOError", ErrNoResponse)],
           [exc |-> Exc("ArmingTimeoutError", ErrArmTimeout)]}
     ELSE {})

\* arm the ChipShouter; if it has faults, clear them and skip the execution
Arm ==
    /\ pc = "arm"
    /\ _test_execution = None                      \* line 352
    /\ \E armed \in ArmOutcomes, cleared \in 0..ClearFaultsAttempts, current \in FaultsCurrent :
         IF armed.exc = None
         THEN /\ cleared = 0
              /\ cs_armed' = TRUE
              /\ calls' = <<"cs.arm">>
              /\ pc' = "temp"
              /\ UNCHANGED <<catched_errors, execution_index, attempt, exc>>
         ELSE /\ catched_errors' = Append(catched_errors, LogEntry(position_index, armed.exc))
              /\ IF armed.exc.msg = ErrFaults
                 THEN LET r == clear_faults(cleared, current)
                      IN /\ calls' = <<"cs.arm">> \o r.calls
                         /\ cs_armed' = FALSE
                         /\ IF r.exc = None
                            THEN /\ execution_index' = NextExecutionIndex(execution_index)
                                 /\ attempt' = Classified("skipped", None)
                                 /\ pc' = "classified"
                                 /\ exc' = None
                            ELSE /\ exc' = r.exc
                                 /\ pc' = "except"
                                 /\ UNCHANGED <<execution_index, attempt>>
                 ELSE /\ cleared = 0
                      /\ calls' = <<"cs.arm">>
                      /\ exc' = armed.exc
                      /\ pc' = "except"
                      /\ UNCHANGED <<cs_armed, execution_index, attempt>>
    /\ test_execution_calls' = test_execution_calls + 1
    /\ UNCHANGED <<codec_vars, profiler_vars, printed, results, position_index, config_index,
                   retry_count, serial_rx, files, status>>

\* wait while the ChipShouter is too hot
TempPoll ==
    /\ pc = "temp"
    /\ \E too_high \in BOOLEAN :
         /\ calls' = IF too_high THEN <<"cs.temps_too_high: True", "sleep">>
                     ELSE <<"cs.temps_too_high: False">>
         /\ pc' = IF too_high THEN "temp" ELSE "safe"
    /\ UNCHANGED <<codec_vars, profiler_vars, printed, results, catched_errors, position_index,
                   config_index, execution_index, retry_count, attempt, exc, serial_rx,
                   cs_armed, files, status, test_execution_calls>>

\* what reading cs.trigger_safe gives: the flag, or the serial link to the
\* ChipShouter does not answer
TriggerSafeReads ==
    {[exc |-> None, val |-> TRUE]} \cup
    (IF MayFail
     THEN {[exc |-> None, val |-> FALSE], [exc |-> Exc("IOError", ErrNoResponse), val |-> FALSE]}
     ELSE {})

\* the flag is read and not looked at
CheckTriggerSafe_Unchecked(read) == read.exc

\* lines 402-403: what is raised after cs.trigger_safe was read
CheckTriggerSafe(read) ==
    IF read.exc # None THEN read.exc
    ELSE IF read.val THEN None ELSE Exc("RuntimeError", ErrTriggerSafe)

\* validate that the ChipShouter is ready for the trigger
TriggerSafe ==
    /\ pc = "safe"
    /\ \E read \in TriggerSafeReads :
         /\ calls' = << IF read.exc # None THEN "cs.trigger_safe: no response"
                        ELSE IF read.val THEN "cs.trigger_safe: True"
                        ELSE "cs.trigger_safe: False" >>
         /\ exc' = CheckTriggerSafe(read)
         /\ pc' = IF CheckTriggerSafe(read) = None THEN "send" ELSE "except"
    /\ UNCHANGED <<codec_vars, profiler_vars, printed, results, catched_errors, position_index,
                   config_index, execution_index, retry_count, attempt, serial_rx,
                   cs_armed, files, status, test_execution_calls>>

InSeq(x, sq) == \E i \in 1..Len(sq) : sq[i] = x

\* CSProfiler.send_packet("s"): the start signal
SendStart ==
    /\ pc = "send"
    /\ LET r == IF ~InSeq(CmdS, valid_commands)
                THEN [exc |-> "ValueError: not a valid command", written |-> <<>>]
                ELSE send_packet(CmdS, None)
       IN /\ calls' = IF r.exc = NoExc THEN <<"target_serial.write">> ELSE <<>>
          /\ exc' = IF r.exc = NoExc THEN None ELSE Exc("Error", r.exc)
          /\ pc' = IF r.exc = NoExc THEN "ack" ELSE "except"
    /\ UNCHANGED <<codec_vars, profiler_vars, printed, results, catched_errors, position_index,
                   config_index, execution_index, retry_count, attempt, serial_rx,
                   cs_armed, files, status, test_execution_calls>>

\* the response is read whatever wait_ack returned
AfterAck_AlwaysRead(ok) == "read"

\* lines 413-418: a missing ack goes to crashHandler, else the response is read
AfterAck(ok) == IF ok THEN "read" ELSE "crash"

\* wait_ack("s", ack_timeout): the two bytes read must be [ord("s"), 0]
WaitAck ==
    /\ pc = "ack"
    /\ \E answer \in {<<CmdS, FrameByte>>, <<>>} :
         LET ok == (answer = <<CmdS, FrameByte>>)
         IN /\ calls' = IF ok THEN <<"target_serial.read">>
                        ELSE <<"target_serial.read", "target_serial.flush">>
            /\ pc' = AfterAck(ok)
    /\ serial_rx' = <<>>
    /\ UNCHANGED <<codec_vars, profiler_vars, printed, results, catched_errors, position_index,
                   config_index, execution_index, retry_count, attempt, exc, cs_armed,
                   files, status, test_execution_calls>>

\* read the next packet from the target; any exception goes to crashHandler
ReadReply ==
    /\ pc = "read"
    /\ \E frame \in GoodFrames \cup UnreadableFrames
                    \cup (IF MayFail THEN StrayFrames ELSE {}) :
         LET r == read_packet(serial_rx \o frame)
         IN /\ serial_rx' = r.rest
            /\ calls' = <<"target_serial.read_packet">>
            /\ attempt' = IF r.exc = NoExc THEN [cmd |-> r.cmd, data |-> r.data] ELSE None
            /\ pc' = IF r.exc = NoExc THEN "dispatch" ELSE "crash"
    /\ UNCHANGED <<codec_vars, profiler_vars, printed, results, catched_errors, position_index,
                   config_index, execution_index, retry_count, exc, cs_armed, files, status, test_execution_calls>>

\* crashHandler, and the return of test_execution to line 467
Crash ==
    /\ pc = "crash"
    /\ \E answer \in ResetAnswers :
         LET r == reset_target(answer)
         IN /\ calls' = r.calls
            /\ exc' = r.exc
            /\ IF r.exc = None
               THEN /\ execution_index' = NextExecutionIndex(execution_index)
                    /\ attempt' = Classified("crashes", None)
                    /\ pc' = "classified"
               ELSE /\ pc' = "except"
                    /\ UNCHANGED <<execution_index, attempt>>
    /\ serial_rx' = <<>>
    /\ UNCHANGED <<codec_vars, profiler_vars, printed, results, catched_errors, position_index,
                   config_index, retry_count, cs_armed, files, status, test_execution_calls>>

\* the packets of simpleserial_config whose command is cmd, in order
Matching(c) == SelectSeq(simpleserial_config, LAMBDA p : p.command = c)

\* str(command) for the commands in use
CmdText(c) ==
    CASE c = CmdS -> "115" [] c = CmdE -> "101" [] c = CmdR -> "114" [] c = CmdF -> "102"
      [] c = CmdC -> "99" [] OTHER -> "?"

\* the type of the extradata is not looked at
CheckResult_AnyExtradata(p, result) ==
    LET category == IF result.t = "tuple" THEN result.v[1] ELSE result.v
        extradata == IF result.t = "tuple" THEN result.v[2] ELSE None
    IN IF result.t \notin {"tuple", "str"} \/ category \notin result_types
       THEN [exc |-> Exc("ValueError", "invalid result")]
       ELSE [exc |-> None, val |-> Classified(category, extradata)]

\* handlePacket after the handler of packet p returned result; the error
\* texts are those of the source with its backquotes written as apostrophes
CheckResult(p, result) ==
    LET shaped == result.t \in {"tuple", "str"}
        category == IF result.t = "tuple" THEN result.v[1] ELSE result.v
        extradata == IF result.t = "tuple" THEN result.v[2] ELSE None
    IN IF ~shaped
       THEN [exc |-> Exc("ValueError", "Handler of SimpleSerialPacket " \o CmdText(p.command)
                                       \o " must return either a string or a (string, extradata) tuple!")]
       ELSE IF category \notin result_types
       THEN [exc |-> Exc("ValueError", "PacketHandler of command: '" \o CmdText(p.command)
                                       \o "' returned invalid result_category: '"
                                       \o category \o "'")]
       ELSE IF extradata # None /\ extradata.t \notin {"dict", "str", "int", "list"}
       THEN [exc |-> Exc("ValueError", "PacketHandler of command: '" \o CmdText(p.command)
                                       \o "' returned invalid extradata type (has to be dict, str, int, list)")]
       ELSE [exc |-> None, val |-> Classified(category, extradata)]

\* the category is returned whether or not the reset succeeded
faultPacketHandler_IgnoresReset(a) ==
    [exc |-> None, val |-> Str("faults"), calls |-> reset_target(a).calls]

\* faultPacketHandler: reset_target, whose error propagates, then "faults";
\* a: the try on which the target answers the reset
faultPacketHandler(a) ==
    [exc |-> reset_target(a).exc,
     val |-> IF reset_target(a).exc = None THEN Str("faults") ELSE None,
     calls |-> reset_target(a).calls]

\* what the handler of packet p does; the fault handler resets the target first
HandlerResults(p) ==
    IF p.handler = "nofaultPacketHandler"
    THEN {[exc |-> None, val |-> Str("nofaults"), calls |-> <<>>]}
    ELSE IF p.handler = "resetPacketHandler"
    THEN {[exc |-> None, val |-> Str("resets"), calls |-> <<>>]}
    ELSE IF p.handler = "faultPacketHandler"
    THEN {faultPacketHandler(a) : a \in ResetAnswers}
    ELSE IF p.handler \in {"custom", "custom2"}
    THEN {[exc |-> r.exc, val |-> r.val, calls |-> <<>>] :
            r \in {x \in CustomHandlerResults :
                     MayFail \/ (x.exc = None /\ CheckResult(p, x.val).exc = None)}}
    ELSE {[exc |-> Exc("RuntimeError",
                       "SimpleSerialPacket " \o CmdText(p.command) \o ": no handler defined"),
           val |-> None, calls |-> <<>>]}

\* handlePacket(cmd, raw_data): the outcomes, with what the handler returned
\* (result), what handlePacket returns (val) and the handler invoked at the
\* head of calls; without a match matched_packet is read at line 272 without
\* ever having been bound
handlePacket(cmd) ==
    IF Matching(cmd) = <<>>
    THEN {[exc |-> Exc("UnboundLocalError",
                       "local variable 'matched_packet' referenced before assignment"),
           val |-> None, result |-> None, calls |-> <<>>]}
    ELSE {LET checked == IF h.exc # None THEN [exc |-> h.exc]
                         ELSE CheckResult(Matching(cmd)[1], h.val)
          IN [exc |-> checked.exc,
              val |-> IF checked.exc = None THEN checked.val ELSE None,
              result |-> h.val,
              calls |-> <<Matching(cmd)[1].handler>> \o h.calls] :
            h \in HandlerResults(Matching(cmd)[1])}

\* handlePacket(cmd, raw_data), and the return of test_execution to line 467
Dispatch ==
    /\ pc = "dispatch"
    /\ \E r \in handlePacket(attempt.cmd) :
         /\ calls' = r.calls
         /\ exc' = r.exc
         /\ IF r.exc = None
            THEN /\ execution_index' = NextExecutionIndex(execution_index)
                 /\ attempt' = r.val
                 /\ pc' = "classified"
            ELSE /\ pc' = "except"
                 /\ UNCHANGED <<execution_index, attempt>>
    /\ UNCHANGED <<codec_vars, profiler_vars, printed, results, catched_errors, position_index,
                   config_index, retry_count, serial_rx, cs_armed, files, status, test_execution_calls>>

----------------------------------------------------------------------------
(* Campaign: the body of the while loop of test_position after test_execution *)

\* `if extradata:`
Truthy(x) ==
    /\ x # None
    /\ x.t \in {"dict", "list"} => x.v # <<>>
    /\ x.t = "str" => x.v # ""
    /\ x.t = "int" => x.v # 0

\* the info line of line 470: "pos: p+1/.. ; config: c+1/.. ; execution e/..: label",
\* with the category standing for its label
InfoLine(pos, cfg, execution, category) ==
    [pos |-> pos + 1, config |-> cfg + 1, execution |-> execution, category |-> category]

\* lines 470-473: look up the label, increment num_<category>[position_index]
RecordCount ==
    /\ pc = "classified"
    /\ LET category == attempt.result_category
           r == IF category \notin result_types
                THEN [exc |-> Exc("KeyError", "'" \o category \o "'"),
                      d |-> results[config_index + 1]]
                ELSE IncrementAt(results[config_index + 1], NumKey(category), position_index)
           truthy == Truthy(attempt.extradata)
           next == Advance(execution_index)
       IN /\ results' = [results EXCEPT ![config_index + 1] = r.d]
          /\ exc' = r.exc
          /\ IF r.exc # None
             THEN /\ pc' = "except"
                  /\ UNCHANGED <<attempt, position_index, config_index>>
             ELSE IF truthy
             THEN /\ pc' = "counted"
                  /\ UNCHANGED <<attempt, position_index, config_index>>
             ELSE /\ pc' = next.pc
                  /\ position_index' = next.position_index
                  /\ config_index' = next.config_index
                  /\ attempt' = None
    /\ printed' = IF attempt.result_category \in result_types
                  THEN Append(printed, InfoLine(position_index, config_index, execution_index,
                                                attempt.result_category))
                  ELSE printed
    /\ calls' = <<>>
    /\ UNCHANGED <<codec_vars, profiler_vars, catched_errors, execution_index, retry_count,
                   serial_rx, cs_armed, files, status, test_execution_calls>>

\* lines 477-493 on the payload groups `groups` of the category
AppendExtradata(groups, pos, extradata) ==
    IF Len(groups) > 0 /\ groups[Len(groups)].position_index = pos
    THEN [groups EXCEPT ![Len(groups)].data = Append(@, extradata)]
    ELSE Append(groups, [position_index |-> pos, data |-> <<extradata>>])

\* lines 476-493: add the extradata to the results
RecordData ==
    /\ pc = "counted"
    /\ LET category == attempt.result_category
           d0 == results[config_index + 1]
           d1 == IF category \in DOMAIN d0 THEN d0 ELSE SetItem(d0, category, List(<<>>))
           next == Advance(execution_index)
       IN IF d1[category].t # "list"
          THEN /\ exc' = Exc("AttributeError", "object has no attribute 'append'")
               /\ pc' = "except"
               /\ UNCHANGED <<results, attempt, position_index, config_index>>
          ELSE /\ results' = [results EXCEPT ![config_index + 1] =
                                SetItem(d1, category,
                                        List(AppendExtradata(d1[category].v, position_index,
                                                             attempt.extradata)))]
               /\ exc' = None
               /\ pc' = next.pc
               /\ position_index' = next.position_index
               /\ config_index' = next.config_index
               /\ attempt' = None
    /\ calls' = <<>>
    /\ UNCHANGED <<codec_vars, profiler_vars, printed, catched_errors, execution_index, retry_count,
                   serial_rx, cs_armed, files, status, test_execution_calls>>

\* line 499-502: a RetryError is replaced by the exception of its last attempt
Unwrap(e) == IF e.type = "RetryError" /\ e.last # None THEN e.last ELSE e

\* off by one: the retry limit strikes one exception early
RetriesLeft_OneLess(count) == count < MaxRetries - 1

\* off by one: a fourth retry is allowed
RetriesLeft_OneMore(count) == count < MaxRetries + 1

\* line 508: retries are allowed while fewer than 3 were consumed
RetriesLeft(count) == count < MaxRetries

\* every error that is not the reset timeout is retried by tier 1
ErrorTier_RetryAll(e) ==
    IF e.msg \in {ErrResetKnown} THEN "tier2" ELSE "tier1"

\* lines 510, 516, 536: the branch chosen by the text of the error
ErrorTier(e) ==
    IF e.msg \in {ErrNoResponse, ErrClearFaultsKnown} THEN "tier1"
    ELSE IF e.msg \in {ErrResetKnown} THEN "tier2"
    ELSE "unknown"

\* lines 519-534: disarm, power cycle, new serial session, reset; the counter
\* updates are inside the try whose except reflashes the target.
\* a1, a2: the answers of the target to the two resets
Tier2(d, a1, a2) ==
    LET first == reset_target(a1)
        soft == PlusEqOne(d, "soft_bricked")
        before == <<"cs.disarm", "cw.power_cycle_usb", "TargetSerial">> \o first.calls
        second == reset_target(a2)
        hard == PlusEqOne(d, "hard_bricked")
        reflash == before \o <<"cw.flash">> \o second.calls
    IN IF first.exc = None /\ soft.exc = None
       THEN [exc |-> None, d |-> soft.d, calls |-> before]
       ELSE IF second.exc # None
       THEN [exc |-> second.exc, d |-> d, calls |-> reflash]
       ELSE [exc |-> hard.exc, d |-> hard.d, calls |-> reflash]

\* the except block of the while loop, lines 497-543
HandleException ==
    /\ pc = "except"
    /\ LET e == Unwrap(exc)
           cfg == glitch_configs[config_index + 1]
           d == results[config_index + 1]
       IN /\ catched_errors' = Append(catched_errors, LogEntry(position_index, e))
          /\ IF RetriesLeft(retry_count)
             THEN /\ retry_count' = retry_count + 1
                  /\ IF ErrorTier(e) = "tier1"
                     THEN \E answer \in ResetAnswers :
                            LET r == reset_target(answer)
                                next == Advance(execution_index)
                            IN /\ calls' = <<"cs.power_cycle_usb", "target_serial.flush">>
                                            \o r.calls
                                            \o (IF r.exc = None THEN <<"configure_chipshouter">>
                                                ELSE <<>>)
                               /\ cs_armed' = FALSE
                               /\ serial_rx' = <<>>
                               /\ exc' = r.exc
                               /\ pc' = IF r.exc = None THEN next.pc ELSE "abort"
                               /\ position_index' = IF r.exc = None THEN next.position_index
                                                    ELSE position_index
                               /\ config_index' = IF r.exc = None THEN next.config_index
                                                  ELSE config_index
                               /\ UNCHANGED <<results, execution_index>>
                     ELSE IF ErrorTier(e) = "tier2"
                     THEN \E a1 \in ResetAnswers, a2 \in ResetAnswers :
                            LET r == Tier2(d, a1, a2)
                                next == Advance(execution_index + 1)
                            IN /\ calls' = r.calls
                               /\ cs_armed' = FALSE
                               /\ serial_rx' = <<>>
                               /\ exc' = r.exc
                               /\ results' = [results EXCEPT ![config_index + 1] = r.d]
                               /\ execution_index' = IF r.exc = None THEN execution_index + 1
                                                     ELSE execution_index
                               /\ pc' = IF r.exc = None THEN next.pc ELSE "abort"
                               /\ position_index' = IF r.exc = None THEN next.position_index
                                                    ELSE position_index
                               /\ config_index' = IF r.exc = None THEN next.config_index
                                                  ELSE config_index
                     ELSE \* unknown error: raise e
                          /\ exc' = e
                          /\ pc' = "abort"
                          /\ calls' = <<>>
                          /\ UNCHANGED <<results, execution_index, position_index,
                                         config_index, cs_armed, serial_rx>>
             ELSE \* skip the rest of the executions of this config at this position
                  /\ results' = [results EXCEPT ![config_index + 1] =
                                   SetItem(d, "num_skipped",
                                           IntVal(cfg.num_executions - execution_index))]
                  /\ exc' = None
                  /\ pc' = Break.pc
                  /\ position_index' = Break.position_index
                  /\ config_index' = Break.config_index
                  /\ calls' = <<>>
                  /\ UNCHANGED <<retry_count, execution_index, cs_armed, serial_rx>>
    /\ attempt' = None
    /\ UNCHANGED <<codec_vars, profiler_vars, printed, files, status, test_execution_calls>>

----------------------------------------------------------------------------
(* Campaign: the end of run_campaign *)

\* the smallest counter for which neither results_<n>.json nor
\* results_<n>_partial.json exists
\* the files are numbered in the order they are written
FreeCounter_CountFiles(fs) == Len(fs)

FreeCounter(fs) ==
    CHOOSE n \in 0..Len(fs) :
        /\ \A i \in 1..Len(fs) : fs[i].counter # n
        /\ \A m \in 0..(n - 1) : \E i \in 1..Len(fs) : fs[i].counter = m

\* the partial flag is ignored: every file is named as a partial one
store_results_AlwaysPartial(fs, res, errors, partial) ==
    Append(fs, [counter |-> FreeCounter(fs), partial |-> TRUE,
                results |-> res, catched_errors |-> errors])

\* store_results: the document written, under a new name
store_results(fs, res, errors, partial) ==
    Append(fs, [counter |-> FreeCounter(fs), partial |-> partial,
                results |-> res, catched_errors |-> errors])

\* the last-resort handler of run_campaign, lines 594-604
CampaignExcept ==
    /\ pc = "abort"
    /\ LET errors == Append(catched_errors, [position_index |-> "unknown", error |-> exc.msg])
       IN /\ catched_errors' = errors
          /\ files' = store_results(files, results, errors, TRUE)
    /\ status' = -1
    /\ pc' = "done"
    /\ calls' = <<"store_results">>
    /\ UNCHANGED <<codec_vars, profiler_vars, printed, results, position_index, config_index,
                   execution_index, retry_count, attempt, exc, serial_rx, cs_armed, test_execution_calls>>

\* the normal end of run_campaign, lines 607-610
Finish ==
    /\ pc = "finish"
    /\ cs_armed' = FALSE
    /\ files' = store_results(files, results, catched_errors, FALSE)
    /\ status' = 0
    /\ pc' = "done"
    /\ calls' = <<"cs.disarm", "store_results">>
    /\ UNCHANGED <<codec_vars, profiler_vars, printed, results, catched_errors, position_index,
                   config_index, execution_index, retry_count, attempt, exc, serial_rx, test_execution_calls>>

\* SIGINT while the campaign runs: ctrl_c_signal_handler, installed at line
\* 575, runs between two steps of the main thread. sys.exit(0) ends the
\* process: the locals of the interrupted calls are gone, what stays is the
\* files, the output and the state of the hardware
Interrupt ==
    /\ pc \notin {"off", "idle", "setup", "done", "exited"}
    /\ files' = store_results(files, results, catched_errors, TRUE)
    /\ cs_armed' = FALSE
    /\ calls' = <<"store_results", "cs.disarm", "sys.exit">>
    /\ pc' = "exited"
    /\ position_index' = 0 /\ config_index' = 0 /\ execution_index' = 0 /\ retry_count' = 0 /\ test_execution_calls' = 0
    /\ attempt' = None
    /\ exc' = None
    /\ serial_rx' = <<>>
    /\ UNCHANGED <<codec_vars, profiler_vars, printed, results, catched_errors, status>>

\* SIGINT while lines 481-485 run: the SystemExit of line 177 is raised inside
\* the try of line 481 and caught by the bare except of line 486, so the
\* checkpoint is written and the ChipShouter disarmed but the process goes on:
\* the except branch opens a new payload group and the payload is appended
InterruptSwallowed ==
    /\ pc = "counted"
    /\ Len(files) < MaxSwallowed
    /\ LET category == attempt.result_category
           d0 == results[config_index + 1]
           d1 == IF category \in DOMAIN d0 THEN d0 ELSE SetItem(d0, category, List(<<>>))
           next == Advance(execution_index)
       IN /\ d1[category].t = "list"
          /\ files' = store_results(files, [results EXCEPT ![config_index + 1] = d1],
                                    catched_errors, TRUE)
          /\ results' = [results EXCEPT ![config_index + 1] =
                           SetItem(d1, category,
                                   List(Append(d1[category].v,
                                               [position_index |-> position_index,
                                                data |-> <<attempt.extradata>>])))]
          /\ pc' = next.pc
          /\ position_index' = next.position_index
          /\ config_index' = next.config_index
    /\ attempt' = None
    /\ exc' = None
    /\ cs_armed' = FALSE
    /\ calls' = <<"store_results", "cs.disarm", "sys.exit">>
    /\ UNCHANGED <<codec_vars, profiler_vars, printed, catched_errors, execution_index,
                   retry_count, serial_rx, status, test_execution_calls>>

----------------------------------------------------------------------------
(* Campaign: test_execution with a replacement installed, lines 352-375 *)

Tuple3(a, b, c) == [t |-> "tuple", v |-> <<a, b, c>>]

\* type(x) as the error texts print it
TypeText(x) == "<class '" \o (IF x = None THEN "NoneType" ELSE x.t) \o "'>"

\* what the replacement may do when called for execution ei: return a
\* 3-tuple or a 2-tuple, advance the index by one or by two, go back by one
\* (while fewer than MaxAttempts attempts were counted), return something
\* else, or raise
ReplacementOutcomes(ei) ==
    { [exc |-> None, val |-> Tuple3(IntVal(ei + 1), Str("faults"), Dict(SamplePayload))],
      [exc |-> None, val |-> Tuple3(IntVal(ei + 1), Str("nofaults"), None)],
      [exc |-> None, val |-> Tuple3(IntVal(ei + 2), Str("crashes"), None)] }
    \cup
    (IF ei >= 1 /\ Len(printed) < MaxAttempts
     THEN { [exc |-> None, val |-> Tuple3(IntVal(ei - 1), Str("nofaults"), None)] }
     ELSE {})
    \cup
    (IF MayFail
     THEN { [exc |-> None, val |-> Tuple2(IntVal(ei + 1), Str("faults"))],
            [exc |-> None, val |-> Str("faults")],
            [exc |-> None, val |-> Tuple3(Str("1"), Str("faults"), None)],
            [exc |-> None, val |-> Tuple3(IntVal(ei + 1), IntVal(3), None)],
            [exc |-> None, val |-> Tuple3(IntVal(ei + 1), Str("faults"), List(<<>>))],
            [exc |-> Exc("IOError", ErrNoResponse), val |-> None] }
     ELSE {})

\* lines 357-373: the checks of what the replacement returned; None if it
\* passes them
CheckReturn(ret) ==
    LET got == "test_execution must return a tuple (int, str, dict) or (int, str), got "
    IN IF ret.t # "tuple" \/ Len(ret.v) \notin {2, 3}
       THEN Exc("TypeError", got \o TypeText(ret))
       ELSE IF ret.v[1].t # "int"
       THEN Exc("TypeError", "First element (next_execution_index) must be int, got "
                             \o TypeText(ret.v[1]))
       ELSE IF ret.v[2].t # "str"
       THEN Exc("TypeError", "Second element (result_category) must be str, got "
                             \o TypeText(ret.v[2]))
       ELSE IF Len(ret.v) = 3 /\ ret.v[3] # None /\ ret.v[3].t # "dict"
       THEN Exc("TypeError", "Third element (extradata) must be dict or None, got "
                             \o TypeText(ret.v[3]))
       ELSE None

\* line 467: the tuple test_execution returned (line 375 returns ret itself)
\* is unpacked into three names
UnpackThree(ret) ==
    IF Len(ret.v) = 3 THEN None
    ELSE Exc("ValueError", "not enough values to unpack (expected 3, got 2)")

\* test_execution with a replacement installed, and its return to line 467;
\* when an exception is raised attempt keeps what the replacement returned
ReplacedExecution ==
    /\ pc = "arm"
    /\ _test_execution # None
    /\ \E out \in ReplacementOutcomes(execution_index) :
         LET e == IF out.exc # None THEN out.exc
                  ELSE IF CheckReturn(out.val) # None THEN CheckReturn(out.val)
                  ELSE UnpackThree(out.val)
         IN /\ exc' = e
            /\ IF e = None
               THEN /\ execution_index' = out.val.v[1].v
                    /\ attempt' = Classified(out.val.v[2].v, out.val.v[3])
                    /\ pc' = "classified"
               ELSE /\ attempt' = [returned |-> out.val]
                    /\ pc' = "except"
                    /\ UNCHANGED execution_index
    /\ calls' = <<_test_execution.name>>
    /\ test_execution_calls' = test_execution_calls + 1
    /\ UNCHANGED <<codec_vars, profiler_vars, printed, results, catched_errors, position_index,
                   config_index, retry_count, serial_rx, cs_armed, files, status>>

Next ==
    \/ StartCampaign \/ MovePosition \/ StartConfig
    \/ Arm \/ TempPoll \/ TriggerSafe \/ SendStart \/ WaitAck \/ ReadReply \/ Crash \/ Dispatch
    \/ RecordCount \/ RecordData \/ HandleException
    \/ CampaignExcept \/ Finish
    \/ Interrupt
    \/ InterruptSwallowed

Spec == Init /\ [][Next]_vars

\* the poll of lines 397-400 finds the ChipShouter cool enough
TempCleared == TempPoll /\ pc' = "safe"

\* a campaign in which every call returns (the step in progress completes)
\* and the over-temperature condition clears
SpecFair == Init /\ [][Next]_vars /\ WF_vars(Next) /\ WF_vars(TempCleared)

\* a campaign run after overwrite_test_execution installed a replacement
ReplacedInit ==
    CodecOff /\ pc = "idle" /\ Constructed
    /\ _test_execution = [name |-> "custom_execution", co_argcount |-> 4]

ReplacedNext ==
    \/ StartCampaign \/ MovePosition \/ StartConfig
    \/ ReplacedExecution
    \/ RecordCount \/ RecordData \/ HandleException
    \/ CampaignExcept \/ Finish
    \/ Interrupt
    \/ InterruptSwallowed

SpecReplaced == ReplacedInit /\ [][ReplacedNext]_vars

\* campaigns with the default test_execution and campaigns with a replacement
CampaignsInit == Init \/ ReplacedInit

CampaignsNext == Next \/ ReplacedExecution

SpecCampaigns == CampaignsInit /\ [][CampaignsNext]_vars

----------------------------------------------------------------------------
(* Codec harness: apply the functions to inputs drawn from the bounded sets *)

CodecInit ==
    /\ pc = "off" /\ ProfilerInit
    /\ Len(positions) = 1 /\ Len(glitch_configs) = 1
    /\ glitch_configs[1].num_executions = 1 /\ glitch_configs[1].pulse_repeats = FewRepeats
    /\ cpc = "start"
    /\ frame_cmd \in Commands
    /\ frame_byte_arg = FrameByte
    /\ buf \in ByteInputs
    /\ stuffed = <<>>
    /\ unstuffed = NotRun
    /\ transport = <<>>
    /\ sent = NotRun
    /\ received = NotRun
    /\ _flush_on_err = TRUE

CobsStuff ==
    /\ cpc = "start"
    /\ stuffed' = _cobs_stuff_data(buf, FrameByte)
    /\ cpc' = "stuffed"
    /\ UNCHANGED <<_flush_on_err, frame_cmd, frame_byte_arg, buf, unstuffed, transport, sent, received, campaign_vars>>

CobsUnstuff ==
    /\ cpc = "stuffed"
    /\ unstuffed' = _cobs_unstuff_data(stuffed, FrameByte)
    /\ cpc' = "unstuffed"
    /\ UNCHANGED <<_flush_on_err, frame_cmd, frame_byte_arg, buf, stuffed, transport, sent, received, campaign_vars>>

\* the payload argument: None, or the bytes of buf
PayloadArgs == {None, Bytes(buf)}

SendPacket ==
    /\ cpc = "start"
    /\ \E data \in PayloadArgs :
         LET r == send_packet(frame_cmd, data)
         IN /\ sent' = [exc |-> r.exc, cmd |-> frame_cmd, data |-> data]
            /\ transport' = transport \o r.written
    /\ cpc' = "sent"
    /\ UNCHANGED <<_flush_on_err, frame_cmd, frame_byte_arg, buf, stuffed, unstuffed, received, campaign_vars>>

ReadPacket ==
    /\ cpc = "sent"
    /\ LET r == read_packet(transport)
       IN /\ received' = [exc |-> r.exc, cmd |-> r.cmd, data |-> r.data]
          /\ transport' = r.rest
    /\ cpc' = "read"
    /\ UNCHANGED <<_flush_on_err, frame_cmd, frame_byte_arg, buf, stuffed, unstuffed, sent, campaign_vars>>

\* the frame_byte arguments tried
FrameByteArgs == ByteVals

\* _cobs_stuff_data(buf, frame_byte) with the frame byte given by the caller
StuffWith ==
    /\ cpc = "start"
    /\ \E fb \in FrameByteArgs :
         /\ frame_byte_arg' = fb
         /\ stuffed' = _cobs_stuff_data(buf, fb)
    /\ cpc' = "stuffed with"
    /\ UNCHANGED <<_flush_on_err, frame_cmd, buf, unstuffed, transport, sent, received, campaign_vars>>

\* _cobs_unstuff_data on the bytes of buf as they are
UnstuffRaw ==
    /\ cpc = "start"
    /\ unstuffed' = _cobs_unstuff_data(buf, FrameByte)
    /\ cpc' = "decoded"
    /\ UNCHANGED <<_flush_on_err, frame_cmd, frame_byte_arg, buf, stuffed, transport, sent, received, campaign_vars>>

CodecNext == CobsStuff \/ CobsUnstuff \/ SendPacket \/ ReadPacket \/ UnstuffRaw \/ StuffWith

SpecCodec == CodecInit /\ [][CodecNext]_vars

----------------------------------------------------------------------------
(* Decoding harness: read_packet on a corrupted data packet *)

\* the values a corrupted byte may take
MutatedBytes == 0..255

\* the wire form of a data packet: command, stuffed payload and CRC, terminator
WireForm(c, payload, crc) ==
    <<c>> \o _cobs_stuff_data(Append(payload, crc), FrameByte) \o <<FrameByte>>

\* payload with its last byte replaced by b
WithLastByte(payload, b) == [payload EXCEPT ![Len(payload)] = b]

\* one command is tried: the command byte takes no part in the decoding
DecodeInit == CodecInit /\ frame_cmd = 1

\* the payloads whose corruptions are tried: the short ones, and a full block
\* of 254 bytes followed by a full affix
CorruptedPayload(payload) ==
    \/ Len(payload) \in 1..MaxAffix
    \/ \E suf \in Affixes :
         Len(suf) = MaxAffix /\ payload = Repeat(7, BlockCodeMax - 1) \o suf

\* the target's data packet (frame_cmd, buf) arrives with the last payload
\* byte changed and the CRC byte as transmitted, and read_packet reads it
ReadCorrupted ==
    /\ cpc = "start"
    /\ CorruptedPayload(buf)
    /\ \E crc \in {_calc_crc(buf)} :
         \E b \in MutatedBytes \ {buf[Len(buf)]} :
           \E wire \in {WireForm(frame_cmd, WithLastByte(buf, b), crc)} :
             \E r \in {read_packet(wire)} :
               /\ stuffed' = wire
               /\ received' = [exc |-> r.exc, cmd |-> r.cmd, data |-> r.data]
               /\ transport' = r.rest
    /\ sent' = [exc |-> NoExc, cmd |-> frame_cmd, data |-> Bytes(buf)]
    /\ cpc' = "corrupted"
    /\ UNCHANGED <<_flush_on_err, frame_cmd, frame_byte_arg, buf, unstuffed, campaign_vars>>

DecodeNext == ReadCorrupted

SpecDecode == DecodeInit /\ [][DecodeNext]_vars

----------------------------------------------------------------------------
(* Transport harness: read_until and wait_for_sequence on the bytes the *)
(* target sent                                                           *)

\* the longest stream of bytes the target has sent
MaxStream == 4

Streams == SeqsUpTo(ByteVals, MaxStream)

\* the sequences waited for
Sequences == {<<0>>, <<1, 0>>, <<1, 1>>}

\* SimpleSerial_Err
ErrOK == 0
ErrCmd == 1
ErrTimeout == 3

\* ser.read_bytes(n, timeout) of the transport driver: the first n bytes when
\* they arrive in time, else None, with the bytes that did arrive left in the
\* buffer or taken from it
read_bytes(stream, n) ==
    IF Len(stream) >= n
    THEN {[val |-> Bytes(SubSeq(stream, 1, n)), rest |-> SubSeq(stream, n + 1, Len(stream))]}
    ELSE {[val |-> None, rest |-> stream], [val |-> None, rest |-> <<>>]}

\* what wait_for_sequence returns after self.read gave x
wait_for_sequence(sequence, x) ==
    IF x = Bytes(sequence) THEN ErrOK
    ELSE IF x = None THEN ErrTimeout
    ELSE ErrCmd

\* the transport is flushed whatever wait_for_sequence returns
Flushes_Always(code, policy) == policy

\* lines 692-699 and flush_on_error: the buffer is flushed on the two error
\* branches if _flush_on_err is set
Flushes(code, policy) == code # ErrOK /\ policy

\* a TargetSerial with bytes of the target waiting, constructed with or
\* without flush_on_err
TransportInit ==
    /\ pc = "off" /\ ProfilerInit
    /\ Len(positions) = 1 /\ Len(glitch_configs) = 1
    /\ glitch_configs[1].num_executions = 1 /\ glitch_configs[1].pulse_repeats = FewRepeats
    /\ cpc = "connected"
    /\ frame_cmd = 0 /\ frame_byte_arg = FrameByte /\ buf = <<>> /\ stuffed = <<>>
    /\ unstuffed = NotRun
    /\ transport \in Streams
    /\ sent = NotRun
    /\ received = NotRun
    /\ _flush_on_err \in BOOLEAN

\* read_until(sequence, timeout); `arrived` bytes of the stream are delivered
\* before the timeout ends the loop
ReadUntil ==
    /\ cpc = "connected"
    /\ \E sequence \in Sequences, arrived \in 0..Len(transport) :
         LET result == read_until(SubSeq(transport, 1, arrived), sequence)
         IN /\ received' = [val |-> result]
            /\ transport' = SubSeq(transport, Len(result) + 1, Len(transport))
            /\ sent' = [op |-> "read_until", sequence |-> sequence, arrived |-> arrived]
    /\ cpc' = "read until"
    /\ UNCHANGED <<_flush_on_err, frame_cmd, frame_byte_arg, buf, stuffed, unstuffed,
                   campaign_vars>>

\* wait_for_sequence(sequence, timeout)
WaitForSequence ==
    /\ cpc = "connected"
    /\ \E sequence \in Sequences : \E x \in read_bytes(transport, Len(sequence)) :
         LET code == wait_for_sequence(sequence, x.val)
             flushed == Flushes(code, _flush_on_err)
         IN /\ received' = [val |-> code]
            /\ sent' = [op |-> "wait_for_sequence", sequence |-> sequence, read |-> x.val]
            /\ transport' = IF flushed THEN <<>> ELSE x.rest
            /\ calls' = <<"ser.read_bytes">> \o (IF flushed THEN <<"ser.flush">> ELSE <<>>)
    /\ cpc' = "waited"
    /\ UNCHANGED <<_flush_on_err, frame_cmd, frame_byte_arg, buf, stuffed, unstuffed,
                   profiler_vars, pc, results, catched_errors, position_index, config_index,
                   execution_index, retry_count, attempt, exc, serial_rx, cs_armed, files,
                   printed, status, test_execution_calls>>

TransportNext == ReadUntil \/ WaitForSequence

SpecTransport == TransportInit /\ [][TransportNext]_vars

----------------------------------------------------------------------------
(* Setup: the registry of SimpleSerial packets between construction and
   run_campaign, and handlePacket on that registry *)

\* a simpleserial_config handed to the constructor, with two packets of one
\* command
SuppliedSimpleSerialConfig ==
    << Packet(CmdS, "SimpleSerialPacket.handler"),
       Packet(CmdF, "faultPacketHandler"),
       Packet(CmdE, "nofaultPacketHandler"),
       Packet(CmdF, "custom") >>

\* nothing is removed
RemoveFirst_Nothing(seq, x) == seq

\* list.remove(x): the first occurrence goes
RemoveFirst(seq, x) ==
    LET i == CHOOSE k \in 1..Len(seq) : seq[k] = x /\ \A m \in 1..(k - 1) : seq[m] # x
    IN SubSeq(seq, 1, i - 1) \o SubSeq(seq, i + 1, Len(seq))

\* overwrite keeps the packets already registered for the command
addSimpleSerialCommand_KeepOld(config, valid, packet, overwrite) ==
    IF "command" \notin DOMAIN packet \/ packet.command = 0
       \/ (InSeq(packet.command, valid) /\ ~overwrite)
    THEN [exc |-> Exc("KeyError", "rejected"), simpleserial_config |-> config,
          valid_commands |-> valid]
    ELSE [exc |-> None, simpleserial_config |-> Append(config, packet),
          valid_commands |-> Append(valid, packet.command)]

\* addSimpleSerialCommand(packet, overwrite) on the registry (config, valid);
\* a packet is a record, anything else is not a SimpleSerialPacket
addSimpleSerialCommand(config, valid, packet, overwrite) ==
    LET unchanged(e) == [exc |-> e, simpleserial_config |-> config, valid_commands |-> valid]
    IN IF "command" \notin DOMAIN packet
       THEN unchanged(Exc("ValueError", "addCommand: Can only add objects of type: SimpleSerialPacket"))
       ELSE IF packet.command = 0
       THEN unchanged(Exc("KeyError", "SimpleSerial command cannot be 0 since zero is the termination character."))
       ELSE IF InSeq(packet.command, valid) /\ ~overwrite
       THEN unchanged(Exc("KeyError", "addCommand: Command '" \o CmdText(packet.command)
                                      \o "' already exists in valid_commands."))
       ELSE LET kept == IF InSeq(packet.command, valid)
                        THEN SelectSeq(config, LAMBDA p : p.command # packet.command)
                        ELSE config
                others == IF InSeq(packet.command, valid)
                          THEN RemoveFirst(valid, packet.command)
                          ELSE valid
            IN [exc |-> None,
                simpleserial_config |-> Append(kept, packet),
                valid_commands |-> Append(others, packet.command)]

\* the arguments of addSimpleSerialCommand tried
PacketArgs ==
    {Packet(c, h) : c \in {0, CmdF, CmdC}, h \in {"custom", "custom2"}} \cup {Str("f")}

\* the commands handed to handlePacket
DispatchArgs == {CmdS, CmdE, CmdF, CmdC}

SetupInit ==
    /\ CodecOff
    /\ pc = "setup"
    /\ \E npos \in 1..NumPositions, nconf \in 1..NumConfigs :
         /\ positions = [p \in 1..npos |-> <<p, 0, 0>>]
         /\ glitch_configs = [c \in 1..nconf |-> GlitchConfig(1, FewRepeats)]
    /\ result_types = DefaultResultTypes
    /\ simpleserial_config \in {DefaultSimpleSerialConfig, SuppliedSimpleSerialConfig}
    /\ valid_commands = [i \in 1..Len(simpleserial_config) |-> simpleserial_config[i].command]
    /\ _test_execution = None
    /\ _results = InitialResults(result_types, Len(positions), Len(glitch_configs))
    /\ results = <<>>
    /\ catched_errors = <<>>
    /\ position_index = 0 /\ config_index = 0 /\ execution_index = 0 /\ retry_count = 0 /\ test_execution_calls = 0
    /\ attempt = None
    /\ exc = None
    /\ serial_rx = <<>>
    /\ cs_armed = FALSE
    /\ calls = <<>>
    /\ files = <<>>
    /\ printed = <<>>
    /\ status = None

\* a call of addSimpleSerialCommand; attempt keeps its arguments
AddSimpleSerialCommand ==
    /\ pc = "setup"
    /\ \E packet \in PacketArgs, overwrite \in BOOLEAN :
         LET r == addSimpleSerialCommand(simpleserial_config, valid_commands, packet, overwrite)
         IN /\ simpleserial_config' = r.simpleserial_config
            /\ valid_commands' = r.valid_commands
            /\ exc' = r.exc
            /\ attempt' = [op |-> "addSimpleSerialCommand", packet |-> packet,
                           overwrite |-> overwrite]
    /\ calls' = <<>>
    /\ UNCHANGED <<codec_vars, pc, positions, glitch_configs, result_types, _test_execution,
                   _results, results, catched_errors, position_index, config_index, execution_index, retry_count,
                   serial_rx, cs_armed, files, printed, status, test_execution_calls>>

\* a call of handlePacket; attempt keeps its argument and what it returned
HandlePacket ==
    /\ pc = "setup"
    /\ \E cmd \in DispatchArgs : \E r \in handlePacket(cmd) :
         /\ exc' = r.exc
         /\ calls' = r.calls
         /\ attempt' = [op |-> "handlePacket", cmd |-> cmd, result |-> r.result,
                        returned |-> r.val]
    /\ UNCHANGED <<codec_vars, pc, profiler_vars, results, catched_errors, position_index,
                   config_index, execution_index, retry_count, serial_rx, cs_armed, files,
                   printed, status, test_execution_calls>>

\* co_argcount of CSProfiler.test_execution: self and the three indices
TestExecutionArgCount == 4

\* a function with its __code__.co_argcount: the number of its positional
\* parameters
Function(name, co_argcount) == [name |-> name, co_argcount |-> co_argcount]

\* the replacements tried
ExecutionFunctions ==
    { Function("custom_execution", 4), Function("other_execution", 4),
      Function("no_self", 3), Function("extra_parameter", 5) }

\* the replacement is installed whatever its parameters
overwrite_test_execution_Unchecked(current, func) ==
    [exc |-> None, _test_execution |-> func]

\* overwrite_test_execution(func) with current the value of _test_execution
overwrite_test_execution(current, func) ==
    IF TestExecutionArgCount # func.co_argcount
    THEN [exc |-> Exc("TypeError",
                      "overwrite_test_execution: Function has wrong number of arguments."),
          _test_execution |-> current]
    ELSE [exc |-> None, _test_execution |-> func]

\* line 352: the function test_execution runs
ActiveExecution ==
    IF _test_execution # None THEN _test_execution.name ELSE "CSProfiler.test_execution"

\* a call of overwrite_test_execution; attempt keeps its argument
OverwriteTestExecution ==
    /\ pc = "setup"
    /\ \E func \in ExecutionFunctions :
         LET r == overwrite_test_execution(_test_execution, func)
         IN /\ _test_execution' = r._test_execution
            /\ exc' = r.exc
            /\ attempt' = [op |-> "overwrite_test_execution", func |-> func]
    /\ calls' = <<>>
    /\ UNCHANGED <<codec_vars, pc, positions, glitch_configs, result_types, _results,
                   simpleserial_config, valid_commands, results, catched_errors,
                   position_index, config_index, execution_index, retry_count, serial_rx,
                   cs_armed, files, printed, status, test_execution_calls>>

\* only the first result set gets the counters of the new result type
addResultType_FirstConfig(types, res, npos, key, label) ==
    IF key.t # "str" \/ label.t # "str"
    THEN [exc |-> Exc("ValueError", "addResultType: Both key and label must be strings."),
          result_types |-> types, _results |-> res]
    ELSE IF key.v \in types
    THEN [exc |-> Exc("KeyError", "addResultType: Result type '" \o key.v
                                   \o "' already exists in result_types."),
          result_types |-> types, _results |-> res]
    ELSE [exc |-> None,
          result_types |-> types \cup {key.v},
          _results |-> [c \in DOMAIN res |->
                          IF c # 1 THEN res[c]
                          ELSE [k \in DOMAIN res[c] \cup {NumKey(key.v)} |->
                                  IF k = NumKey(key.v) THEN List([p \in 1..npos |-> 0])
                                  ELSE res[c][k]]]]

\* addResultType(key, label) with types = result_types, res = _results and
\* npos = num_positions
addResultType(types, res, npos, key, label) ==
    IF key.t # "str" \/ label.t # "str"
    THEN [exc |-> Exc("ValueError", "addResultType: Both key and label must be strings."),
          result_types |-> types, _results |-> res]
    ELSE IF key.v \in types
    THEN [exc |-> Exc("KeyError", "addResultType: Result type '" \o key.v
                                   \o "' already exists in result_types."),
          result_types |-> types, _results |-> res]
    ELSE [exc |-> None,
          result_types |-> types \cup {key.v},
          _results |-> [c \in DOMAIN res |->
                          [k \in DOMAIN res[c] \cup {NumKey(key.v)} |->
                             IF k = NumKey(key.v) THEN List([p \in 1..npos |-> 0])
                             ELSE res[c][k]]]]

\* the keys and labels handed to addResultType
KeyArgs == {Str("faults"), Str("timeouts"), IntVal(7)}
LabelArgs == {Str("Timeout occurred"), IntVal(5)}

\* a call of addResultType; attempt keeps its arguments
AddResultType ==
    /\ pc = "setup"
    /\ \E key \in KeyArgs, label \in LabelArgs :
         LET r == addResultType(result_types, _results, Len(positions), key, label)
         IN /\ result_types' = r.result_types
            /\ _results' = r._results
            /\ exc' = r.exc
            /\ attempt' = [op |-> "addResultType", key |-> key, label |-> label]
    /\ calls' = <<>>
    /\ UNCHANGED <<codec_vars, pc, positions, glitch_configs, _test_execution,
                   simpleserial_config, valid_commands, results, catched_errors,
                   position_index, config_index, execution_index, retry_count, serial_rx,
                   cs_armed, files, printed, status, test_execution_calls>>

SetupNext ==
    AddSimpleSerialCommand \/ HandlePacket \/ OverwriteTestExecution \/ AddResultType

SpecSetup == SetupInit /\ [][SetupNext]_vars

\* a CSProfiler constructed without a simpleserial_config of the caller
DefaultSetupInit == SetupInit /\ simpleserial_config = DefaultSimpleSerialConfig

SpecDefaultSetup == DefaultSetupInit /\ [][SetupNext]_vars



----------------------------------------------------------------------------
(* Results directory: store_results on a directory that earlier runs left
   files in *)

\* most files a directory holds
MaxFiles == 5

\* a file of an earlier run: results_<n>.json or results_<n>_partial.json
EarlierFile(n, partial) ==
    [counter |-> n, partial |-> partial, results |-> <<>>, catched_errors |-> <<>>]

\* the directories a campaign may find
EarlierDirectories ==
    { <<>>,
      <<EarlierFile(0, FALSE)>>,
      <<EarlierFile(1, TRUE)>>,
      <<EarlierFile(0, TRUE), EarlierFile(2, FALSE)>>,
      <<EarlierFile(2, TRUE), EarlierFile(1, FALSE)>> }

\* a campaign of one position and one config is under way
StoreInit ==
    /\ CodecOff
    /\ pc = "store"
    /\ positions = <<<<1, 0, 0>>>>
    /\ glitch_configs = <<GlitchConfig(1, FewRepeats)>>
    /\ result_types = DefaultResultTypes
    /\ simpleserial_config = DefaultSimpleSerialConfig
    /\ valid_commands = <<CmdS, CmdE, CmdR, CmdF>>
    /\ _test_execution = None
    /\ _results = InitialResults(result_types, Len(positions), Len(glitch_configs))
    /\ results = InitialResults(DefaultResultTypes, 1, 1)
    /\ catched_errors = <<>>
    /\ position_index = 0 /\ config_index = 0 /\ execution_index = 0 /\ retry_count = 0 /\ test_execution_calls = 0
    /\ attempt = None
    /\ exc = None
    /\ serial_rx = <<>>
    /\ cs_armed = FALSE
    /\ calls = <<>>
    /\ files \in EarlierDirectories
    /\ printed = <<>>
    /\ status = None

\* a call of store_results(self.results, partial)
StoreResults ==
    /\ pc = "store"
    /\ Len(files) < MaxFiles
    /\ \E partial \in BOOLEAN :
         files' = store_results(files, results, catched_errors, partial)
    /\ calls' = <<"store_results">>
    /\ UNCHANGED <<codec_vars, pc, profiler_vars, results, catched_errors, position_index,
                   config_index, execution_index, retry_count, attempt, exc, serial_rx,
                   cs_armed, printed, status, test_execution_calls>>

SpecStore == StoreInit /\ [][StoreResults]_vars

----------------------------------------------------------------------------
(* Claims about the codec *)

\* C1: for every byte sequence b, unstuffing the stuffed form of b returns b
\* (no exception, the same bytes), also when a run of 254 non-zero bytes is
\* directly followed by 0x00.
C1_CobsRoundTrip ==
    cpc = "unstuffed" => unstuffed = [exc |-> NoExc, val |-> buf]

\* C2: for every command in 1..255 and every payload, what send_packet wrote
\* to the transport is decoded by read_packet to (command, payload), with None
\* in place of an empty payload.
C2_PacketRoundTrip ==
    (cpc = "read" /\ sent.cmd \in 1..255) =>
        received = [exc |-> NoExc, cmd |-> sent.cmd,
                    data |-> IF sent.data = Bytes(<<>>) THEN None ELSE sent.data]

----------------------------------------------------------------------------
(* Claims about the retry budget and the recovery tiers of test_position *)

\* the step of the except block of test_position (not the step of a signal
\* handler that ends the process at that point)
Handling == pc = "except" /\ pc' # "exited"

\* counter num_<key> of config c (1-based) is a per-position array in res
IsCounterArray(res, c, key) ==
    /\ NumKey(key) \in DOMAIN res[c]
    /\ res[c][NumKey(key)].t = "list"
    /\ Len(res[c][NumKey(key)].v) = Len(positions)

\* the control points from which no further attempt of the current pair runs
PairLeft == {"config", "position", "finish"}

\* C3: once the 3 retries of a pair are consumed, the next exception of an
\* attempt records the remaining executions as skipped at the position
\* (num_skipped[position_index] = num_executions - execution_index), runs no
\* further attempt of the pair, and goes on with the next config at the same
\* position; the run is not aborted.
C3_SkipRemaining ==
    [][ (Handling /\ retry_count >= 3) =>
          /\ IsCounterArray(results', config_index + 1, "skipped")
          /\ results'[config_index + 1]["num_skipped"].v[position_index + 1]
               = glitch_configs[config_index + 1].num_executions - execution_index
          /\ pc' \in PairLeft
          /\ (pc' = "config" => config_index' = config_index + 1
                                /\ position_index' = position_index) ]_vars

\* the counters of one attempt's outcome
IntrinsicCounters == {"nofaults", "faults", "crashes", "resets", "skipped"}

\* num_<key>[p] of config c, p 1-based
CounterAt(c, key, p) == results[c][NumKey(key)].v[p]

\* C4: in every reachable state, for each (config, position), num_nofaults +
\* num_faults + num_crashes + num_resets + num_skipped at that position is at
\* most the config's num_executions.
C4_CountersBounded ==
    \A c \in 1..Len(results), p \in 1..Len(positions) :
        /\ \A key \in IntrinsicCounters : IsCounterArray(results, c, key)
        /\ CounterAt(c, "nofaults", p) + CounterAt(c, "faults", p) + CounterAt(c, "crashes", p)
             + CounterAt(c, "resets", p) + CounterAt(c, "skipped", p)
             <= glitch_configs[c].num_executions

\* the error of clear_faults once its own retries are used up
IsClearFaultsFailure(e) ==
    \E current \in FaultsCurrent : e = RetryError(ClearFaultsError(current))

\* the trace of tier 1 up to the target reset
Tier1Prefix == <<"cs.power_cycle_usb", "target_serial.flush", "cw.reset_target">>

\* C5: a device-unresponsive error or the error of clear_faults after its
\* retries, with fewer than 3 retries consumed, makes test_position power-cycle
\* the pulse generator, flush the serial channel, reset the target and run the
\* same execution index again; no counter is incremented, the run is not
\* aborted (unless that target reset itself fails).
C5_Tier1Retry ==
    [][ (Handling /\ retry_count < 3
           /\ (Unwrap(exc).msg = ErrNoResponse \/ IsClearFaultsFailure(exc))) =>
          /\ Len(calls') >= 3 /\ SubSeq(calls', 1, 3) = Tier1Prefix
          /\ results' = results
          /\ execution_index' = execution_index
          /\ (pc' = "arm" \/ exc' = ResetTimeoutError) ]_vars

\* the trace of tier 2 before its first target reset
Tier2Prefix == <<"cs.disarm", "cw.power_cycle_usb", "TargetSerial">>

\* a tier-2 step is taken
Tier2Step ==
    /\ Handling /\ retry_count < 3 /\ Unwrap(exc).msg = ErrResetKnown
    /\ Len(calls') >= 5 /\ SubSeq(calls', 1, 3) = Tier2Prefix

\* in a tier-2 step, the reset after the power cycle got no answer
FirstResetFailed ==
    /\ Len(calls') >= 3 + 2 * ResetRetries
    /\ SubSeq(calls', 4, 3 + 2 * ResetRetries) = FailedResetTries(ResetRetries)

\* in the step, the last target reset was answered
LastResetAnswered == calls'[Len(calls')] = ResetTry(TRUE)[2]

Reflashed == \E i \in 1..Len(calls') : calls'[i] = "cw.flash"

\* num_<key>[position_index] of the current config goes up by exactly one
CounterUp(key) ==
    /\ IsCounterArray(results, config_index + 1, key)
    /\ IsCounterArray(results', config_index + 1, key)
    /\ results'[config_index + 1][NumKey(key)].v[position_index + 1]
         = results[config_index + 1][NumKey(key)].v[position_index + 1] + 1

\* C6: on the known target-reset-timed-out error, when the reset after the
\* power cycle fails too (and the reset after the reflash is answered), the
\* firmware is reflashed, num_hard_bricked at the position goes up by exactly
\* one, the execution index advances by exactly one and the campaign continues.
C6_HardRecovered ==
    [][ (Tier2Step /\ FirstResetFailed /\ LastResetAnswered) =>
          /\ Reflashed
          /\ CounterUp("hard_bricked")
          /\ execution_index' = execution_index + 1
          /\ pc' # "abort" ]_vars

\* C7: on the known target-reset-timed-out error, when the reset after
\* disarm, power cycle and new serial session is answered (as is every reset
\* of the step), exactly one num_soft_bricked is recorded at the position, the firmware is not reflashed,
\* no hard-recovered is recorded and the execution index advances by one.
C7_SoftRecovered ==
    [][ (Tier2Step /\ ~FirstResetFailed /\ LastResetAnswered) =>
          /\ CounterUp("soft_bricked")
          /\ ~Reflashed
          /\ results'[config_index + 1]["num_hard_bricked"]
               = results[config_index + 1]["num_hard_bricked"]
          /\ execution_index' = execution_index + 1 ]_vars

\* the texts test_position knows: device unresponsive, fault clear failed,
\* target reset timed out
KnownErrorTexts == {ErrNoResponse, ErrClearFaultsKnown, ErrResetKnown}

UnknownError(e) == Unwrap(e).msg \notin KnownErrorTexts

\* the run is aborted with the error e: it leaves test_position
Propagates(e) == pc' = "abort" /\ exc' = Unwrap(e)

\* run_campaign's answer to an abort: the partial checkpoint, status -1, and
\* nothing runs afterwards
AbortCheckpointed ==
    /\ pc' = "done" /\ status' = -1
    /\ Len(files') = Len(files) + 1
    /\ files'[Len(files')].partial
    /\ files'[Len(files')].results = results

\* C8 as stated: an exception outside the known vocabularies is fatal however
\* many retries the pair has consumed.
C8_UnknownAlwaysFatal ==
    [][ (Handling /\ UnknownError(exc)) => Propagates(exc) ]_vars

\* C8, amended: an exception outside the known vocabularies raised while
\* fewer than 3 retries of the pair are consumed is fatal: it propagates out of
\* test_position at once, run_campaign writes a partial checkpoint, and no
\* further attempt runs. With the 3 retries consumed it ends the pair instead.
C8_UnknownFatalWithinBudget ==
    [][ /\ (Handling /\ UnknownError(exc) /\ retry_count < 3) => Propagates(exc)
        /\ (Handling /\ UnknownError(exc) /\ retry_count >= 3) => pc' \in PairLeft
        /\ (pc = "abort" /\ pc' # "exited") => AbortCheckpointed
        /\ pc # "done" ]_vars

\* C8: trigger_safe read false with retries left, the run aborted and the
\* partial checkpoint written
C8_Witness ==
    /\ pc = "done" /\ status = -1
    /\ exc = Exc("RuntimeError", ErrTriggerSafe)
    /\ retry_count \in 1..3
    /\ Len(files) = 1 /\ files[1].partial

\* the schema error of handlePacket for a category that is not registered
InvalidCategoryError ==
    Exc("ValueError", "PacketHandler of command: '99' returned invalid result_category: 'bogus'")

\* C9 as stated: attempts that produce an unregistered category do not abort
\* the run.
C9_InvalidCategoryRetried ==
    [][ (Handling /\ exc = InvalidCategoryError) => pc' # "abort" ]_vars

\* C9, amended: an attempt that produces an unregistered category raises the
\* schema error of handlePacket with nothing recorded; with fewer than 3
\* retries consumed that error consumes one retry, is logged, and aborts the
\* run, so no second such attempt follows; only with the 3 retries already
\* consumed does it end the pair without aborting.
C9_InvalidCategoryFatal ==
    [][ (Handling /\ exc = InvalidCategoryError) =>
          /\ catched_errors' = Append(catched_errors,
                                      LogEntry(position_index, InvalidCategoryError))
          /\ IF retry_count < 3
             THEN /\ pc' = "abort" /\ exc' = InvalidCategoryError
                  /\ retry_count' = retry_count + 1
                  /\ results' = results
             ELSE /\ pc' \in PairLeft
                  /\ retry_count' = retry_count ]_vars

\* C9: the first attempt with an unregistered category has aborted the run
C9_Witness ==
    /\ pc = "abort" /\ exc = InvalidCategoryError /\ retry_count = 1
    /\ catched_errors = <<LogEntry(position_index, InvalidCategoryError)>>

\* the trace of an arm that found the ChipShouter in its fault state followed
\* by a fault clear that failed on each of its attempts
ArmFaultsNotCleared ==
    <<"cs.arm">> \o [i \in 1..ClearFaultsAttempts |-> "cs.clear_faults: faults persist"]

\* C10: when arming reports 'ChipShouter has faults!' and the fault clear is
\* unsuccessful on all of its attempts, the attempt is classified as skipped
\* with the execution index advanced by one, and the campaign continues.
C10_SkippedWhenNotCleared ==
    [][ (pc = "arm" /\ calls' = ArmFaultsNotCleared) =>
          /\ pc' = "classified"
          /\ attempt' = Classified("skipped", None)
          /\ execution_index' = execution_index + 1 ]_vars

----------------------------------------------------------------------------
(* Claims about the end of a campaign and its cancellation *)

\* run_campaign has returned
Returned == pc = "done"

\* the error texts of an error log
ErrorTexts(log) == {log[i].error : i \in 1..Len(log)}

\* the final files among fs
FinalFiles(fs) == {i \in 1..Len(fs) : ~fs[i].partial}

\* C11: when every position completes run_campaign returns 0 and writes
\* exactly one final results file; when an exception aborts the run it returns
\* a non-zero status, writes exactly one partial file and no final file, and the
\* error log stored in that file has the text of the triggering error.
C11_StatusAndFile ==
    [][ pc' = "done" =>
          /\ Len(files') = Len(files) + 1
          /\ files'[Len(files')].results = results'
          /\ IF pc = "finish"
             THEN /\ status' = 0
                  /\ position_index = Len(positions) - 1
                  /\ FinalFiles(files') = {Len(files')}
             ELSE /\ pc = "abort"
                  /\ status' # 0
                  /\ files'[Len(files')].partial
                  /\ FinalFiles(files') = {}
                  /\ exc.msg \in ErrorTexts(files'[Len(files')].catched_errors) ]_vars

\* C11: a campaign that went through an error and completed: status 0, one
\* final file with the error in its log
C11_Witness ==
    /\ Returned /\ status = 0 /\ exc = None
    /\ FinalFiles(files) = {Len(files)}
    /\ Len(files[Len(files)].catched_errors) > 0
    /\ Len(printed) > 0

\* a step of the SIGINT handler
Cancelled == calls' = <<"store_results", "cs.disarm", "sys.exit">>
                \/ (pc' = "exited" /\ pc # "exited")

\* C12: on SIGINT the pulse generator is disarmed first, then the results are
\* written as a partial checkpoint, then the process terminates; this holds on
\* every cancellation path.
C12_DisarmThenCheckpoint ==
    [][ Cancelled =>
          /\ calls' = <<"cs.disarm", "store_results", "sys.exit">>
          /\ ~cs_armed'
          /\ files'[Len(files')].partial
          /\ pc' = "exited" ]_vars

\* the control points between two attempts
AttemptBoundary == {"position", "config", "arm", "finish", "abort"}

\* the counter of the attempt is incremented (line 473), its extradata is not
\* yet appended (line 493)
HalfClassified == pc = "counted"

\* C13: cancellation takes effect only at an attempt boundary; the partial
\* checkpoint never reflects a half-classified attempt, whose counter is
\* incremented without its extradata appended.
C13_CancelAtBoundary ==
    [][ Cancelled => (pc \in AttemptBoundary /\ ~HalfClassified) ]_vars

\* the categories of the attempts classified so far, in order
Categories == [i \in 1..Len(printed) |-> printed[i].category]

\* a campaign of one position and one config with num_executions = 3
OneByOneByThree ==
    /\ Len(positions) = 1 /\ Len(glitch_configs) = 1
    /\ glitch_configs[1].num_executions = 3

\* C14: with 1 position, 1 config and num_executions = 3, attempts classified
\* no-fault, fault, no-fault leave num_nofaults = 2 and num_faults = 1 at
\* position 0 and every other counter 0, and the final document has
\* results.num_nofaults[0] = 2.
C14_ThreeAttempts ==
    (Returned /\ OneByOneByThree /\ Categories = <<"nofaults", "faults", "nofaults">>) =>
        /\ status = 0
        /\ \A key \in result_types :
             results[1][NumKey(key)] = List(<<CASE key = "nofaults" -> 2
                                                 [] key = "faults" -> 1
                                                 [] OTHER -> 0>>)
        /\ ~files[Len(files)].partial
        /\ files[Len(files)].results[1]["num_nofaults"].v[1] = 2

\* C14: that campaign has returned, the fault with a payload recorded
C14_Witness ==
    /\ Returned /\ OneByOneByThree /\ Categories = <<"nofaults", "faults", "nofaults">>
    /\ "faults" \in DOMAIN results[1]
    /\ files[Len(files)].results[1]["num_faults"].v[1] = 1

\* the hardware actions of test_position for a config
HardwareActions ==
    {"cw.reset_target", "configure_chipshouter", "target_serial.flush", "cs.arm"}

\* the calls of the step that are hardware actions of test_position
HardwareCalls == {i \in 1..Len(calls') : calls'[i] \in HardwareActions}

\* the fault train of config c (1-based) does not fit its dead_timeout
TooLong(c) == ~FaultTrainFits(glitch_configs[c])

\* C15: when (pulse_width + pulse_spacing) * pulse_repeats is not strictly
\* less than dead_timeout, the configuration error is raised before
\* test_position performs any hardware action for that config (target reset,
\* configuration, flush, arming); for the first config this includes the
\* target reset at the start of test_position.
C15_CheckedBeforeHardware ==
    [][ /\ (pc = "config" /\ TooLong(config_index + 1) /\ ~Cancelled) =>
             (pc' = "abort" /\ exc'.type = "AssertionError" /\ HardwareCalls = {})
        /\ (pc = "position" /\ TooLong(1) /\ ~Cancelled) => HardwareCalls = {} ]_vars

----------------------------------------------------------------------------
(* Claims about the packet registry and handlePacket *)

\* the step is a call of addSimpleSerialCommand with a SimpleSerialPacket
AddsPacket ==
    /\ "op" \in DOMAIN attempt' /\ attempt'.op = "addSimpleSerialCommand"
    /\ "command" \in DOMAIN attempt'.packet

\* the call is rejected with a KeyError and the registry is as before
Rejected ==
    /\ exc' # None /\ exc'.type = "KeyError"
    /\ simpleserial_config' = simpleserial_config
    /\ valid_commands' = valid_commands

HandledPacket == "op" \in DOMAIN attempt /\ attempt.op = "handlePacket"

\* the types of extradata: None, mapping, string, integer, sequence
ExtradataTypes == {"None", "dict", "str", "int", "list", "tuple"}

\* a handler result with a category and an extradata of those kinds
InSchema(result) ==
    LET category == IF result.t = "tuple" THEN result.v[1] ELSE result.v
        extradata == IF result.t = "tuple" THEN result.v[2] ELSE None
    IN /\ result.t \in {"tuple", "str"}
       /\ category \in result_types
       /\ extradata.t \in ExtradataTypes

UnknownCommandError ==
    Exc("ValueError", "No matching packet definition found for command: '99'")

\* C18: dispatching a command that is not registered fails with the
\* unknown-command error ('No matching packet definition found') and invokes
\* no handler.
C18_UnknownCommand ==
    (HandledPacket /\ Matching(attempt.cmd) = <<>>) =>
        (exc = UnknownCommandError /\ calls = <<>> /\ attempt.returned = None)

----------------------------------------------------------------------------
(* Claims about the frames TargetSerial.send_packet writes *)

\* send_packet has just run
PacketSent == cpc = "sent"

\* C19: sending a packet with command 0 is rejected with an error and writes
\* nothing; only commands in 1..255 are ever encoded and written.
C19_CommandZeroRejected ==
    PacketSent =>
        /\ sent.cmd = 0 => (sent.exc # NoExc /\ transport = <<>>)
        /\ transport # <<>> => transport[1] \in 1..255

\* the frame of a payload: command, stuffed payload and CRC, terminator
Frame(c, payload) ==
    <<c>> \o _cobs_stuff_data(Append(payload, _calc_crc(payload)), FrameByte) \o <<FrameByte>>

\* C20: send_packet writes exactly [command, 0x00] for an empty or None
\* payload, and [command] ++ stuff(payload ++ crc8(payload)) ++ [0x00]
\* otherwise, the complete frame in a single write.
C20_FrameWritten ==
    PacketSent =>
        /\ sent.exc = NoExc
        /\ transport = IF sent.data = None \/ sent.data = Bytes(<<>>)
                       THEN <<sent.cmd, 0>>
                       ELSE Frame(sent.cmd, sent.data.v)

----------------------------------------------------------------------------
(* Claims about decoding *)

\* the CRC error of read_packet
CrcMismatch == "ValueError: read_packet: CRC mismatch"

\* C21: for every data packet (non-empty payload) in the wire form
\* [command, COBS(payload ++ crc8(payload)), 0x00], replacing the last payload
\* byte by any different value while keeping the transmitted CRC byte makes
\* decoding fail with the CRC-mismatch error instead of returning a payload.
C21_CorruptionDetected ==
    cpc = "corrupted" => (received.exc = CrcMismatch /\ received.data = None)

\* walking the code bytes of enc from position i (1-based): a code byte is 0,
\* or the block it announces would read past the end of the buffer
RECURSIVE Malformed(_, _)
Malformed(enc, i) ==
    IF i > Len(enc) THEN FALSE
    ELSE \/ enc[i] = 0
         \/ i + enc[i] - 1 > Len(enc)
         \/ Malformed(enc, i + enc[i])

\* C22: _cobs_unstuff_data fails with a framing error, and returns no partial
\* result, whenever a code byte of the encoded buffer is 0 or a block announced
\* by a code byte would read past the end of the buffer; for every other
\* non-empty buffer it returns a byte sequence.
C22_FramingChecked ==
    cpc = "decoded" =>
        IF Malformed(buf, 1)
        THEN unstuffed.val = <<>> /\ unstuffed.exc # NoExc
        ELSE unstuffed.exc = NoExc /\ unstuffed.val \in Seq(0..255)

\* C22: a buffer whose last block is announced longer than what is left was
\* refused, after a first block that was complete
C22_Witness ==
    /\ cpc = "decoded"
    /\ Len(buf) > BlockCodeMax /\ buf[1] = 1 /\ buf[2] = BlockCodeMax
    /\ unstuffed = [exc |-> "ValueError: Invalid COBS: block extends past end of buffer",
                    val |-> <<>>]

\* C23: for every input and every frame_byte argument (default 0x00), the
\* output of _cobs_stuff_data contains no occurrence of frame_byte and is a
\* concatenation of blocks, each preceded by a one-byte code equal to the block
\* length + 1 (so every code is in 1..255); empty input yields empty output.
C23_StuffedForm ==
    cpc = "stuffed with" =>
        /\ ~InSeq(frame_byte_arg, stuffed)
        /\ ~Malformed(stuffed, 1)
        /\ stuffed \in Seq(0..255)
        /\ buf = <<>> => stuffed = <<>>

----------------------------------------------------------------------------
(* Claims about the results files *)

\* results_<n>.json or results_<n>_partial.json is among fs
Exists(fs, n) == \E i \in 1..Len(fs) : fs[i].counter = n

\* C24: store_results writes to results_<N>.json (complete) or
\* results_<N>_partial.json (partial) where N is the smallest non-negative
\* integer for which neither of the two exists; after any sequence of
\* store_results calls no file that existed before has been overwritten.
C24_FreshFileName ==
    [][ calls' = <<"store_results">> =>
          LET new == files'[Len(files')]
          IN /\ Len(files') = Len(files) + 1
             /\ SubSeq(files', 1, Len(files)) = files
             /\ new.counter \in Nat
             /\ ~Exists(files, new.counter)
             /\ \A m \in 0..(new.counter - 1) : Exists(files, m)
             /\ new.results = results /\ new.catched_errors = catched_errors ]_vars

\* C24: with results_0_partial.json and results_2.json left by earlier runs,
\* the campaign wrote a complete file as results_1.json and then a partial one
\* as results_3_partial.json
C24_Witness ==
    /\ pc = "store" /\ Len(files) = 4
    /\ files[1] = EarlierFile(0, TRUE) /\ files[2] = EarlierFile(2, FALSE)
    /\ files[3].counter = 1 /\ ~files[3].partial
    /\ files[4].counter = 3 /\ files[4].partial

----------------------------------------------------------------------------
(* Claims about the replacement of test_execution *)

\* C25: overwrite_test_execution installs the replacement only if its
\* parameter count equals that of the default test_execution; otherwise it
\* raises TypeError and the execution function active before (the default or
\* an earlier replacement) stays in effect.
C25_ArityChecked ==
    [][ \A func \in ExecutionFunctions :
          ("op" \in DOMAIN attempt' /\ attempt'.op = "overwrite_test_execution"
             /\ attempt'.func = func) =>
              IF func.co_argcount = TestExecutionArgCount
              THEN exc' = None /\ ActiveExecution' = func.name
              ELSE /\ exc' # None /\ exc'.type = "TypeError"
                   /\ ActiveExecution' = ActiveExecution
                   /\ ActiveExecution' # func.name ]_vars

\* C25: a replacement with one parameter too many was refused while an
\* earlier replacement was installed, which stays
C25_Witness ==
    /\ "op" \in DOMAIN attempt /\ attempt.op = "overwrite_test_execution"
    /\ attempt.func = Function("extra_parameter", 5)
    /\ exc # None /\ exc.type = "TypeError"
    /\ ActiveExecution = "other_execution"

----------------------------------------------------------------------------
(* Claims about the result types *)

AddedResultType == "op" \in DOMAIN attempt' /\ attempt'.op = "addResultType"

Zeros == List([p \in 1..Len(positions) |-> 0])

\* the key was registered, its counters were added to every result set and
\* nothing else changed
Registered(key) ==
    /\ exc' = None
    /\ result_types' = result_types \cup {key}
    /\ DOMAIN _results' = 1..Len(glitch_configs)
    /\ \A c \in DOMAIN _results' :
         /\ DOMAIN _results'[c] = DOMAIN _results[c] \cup {NumKey(key)}
         /\ _results'[c][NumKey(key)] = Zeros
         /\ \A k \in DOMAIN _results[c] : _results'[c][k] = _results[c][k]

Refused(type) ==
    /\ exc' # None /\ exc'.type = type
    /\ result_types' = result_types /\ _results' = _results

\* C26: addResultType(key, label) raises KeyError and changes neither
\* result_types nor any result set when key is already registered; otherwise
\* it registers key and adds a zero-initialised counter array of length
\* num_positions under num_<key> to every per-config result set, leaving every
\* existing counter unchanged.
C26_RegisterOrKeyError ==
    [][ \A key \in KeyArgs :
          (AddedResultType /\ attempt'.key = key) =>
              IF key.t = "str" /\ key.v \in result_types THEN Refused("KeyError")
              ELSE Registered(key.v) ]_vars

\* C26, with the check of the argument types that comes first: a key or a
\* label that is not a string is refused with ValueError and nothing changes;
\* for two strings the claim holds as stated.
C26_RegisterOrRefuse ==
    [][ \A key \in KeyArgs, label \in LabelArgs :
          (AddedResultType /\ attempt'.key = key /\ attempt'.label = label) =>
              IF key.t # "str" \/ label.t # "str" THEN Refused("ValueError")
              ELSE IF key.v \in result_types THEN Refused("KeyError")
              ELSE Registered(key.v) ]_vars

\* C26: a new result type was registered with two positions and two configs
C26_Witness ==
    /\ "op" \in DOMAIN attempt /\ attempt.op = "addResultType"
    /\ attempt.key = Str("timeouts") /\ exc = None
    /\ "timeouts" \in result_types
    /\ Len(_results) = 2
    /\ _results[2]["num_timeouts"] = List(<<0, 0>>)
    /\ _results[2]["num_faults"] = List(<<0, 0>>)

----------------------------------------------------------------------------
(* Claims about the recording of a classified attempt *)

\* the attempt's category was counted and the try block goes on
Counted == pc = "classified" /\ pc' \notin {"except", "exited"}

\* the payload groups of the attempt's category in the results res of the
\* current config
Groups(res) ==
    IF attempt.result_category \in DOMAIN res THEN res[attempt.result_category].v ELSE <<>>

\* the attempt's extradata went to the most recent group if that is of the
\* current position, else to a new group
Appended(old, new) ==
    IF Len(old) > 0 /\ old[Len(old)].position_index = position_index
    THEN new = [old EXCEPT ![Len(old)].data = Append(@, attempt.extradata)]
    ELSE new = Append(old, [position_index |-> position_index,
                            data |-> <<attempt.extradata>>])

\* C27: recording a classified attempt increments
\* num_<category>[position_index] of that config by exactly one and, when the
\* classification carries extradata (any value other than None), appends it to
\* that category's payload list: to the data array of the most recent group if
\* that group has the same position_index, otherwise to a newly created group
\* for the position.
C27_CountedAndAppended ==
    [][ /\ Counted =>
            LET key == NumKey(attempt.result_category)
                old == results[config_index + 1]
            IN /\ \A c \in DOMAIN results : \A k \in DOMAIN results[c] :
                  \A q \in 1..Len(positions) :
                    results'[c][k].v[q] =
                        IF c = config_index + 1 /\ k = key /\ q = position_index + 1
                        THEN old[k].v[q] + 1 ELSE results[c][k].v[q]
               /\ attempt.extradata # None => pc' = "counted"
               /\ attempt.extradata = None => Groups(results'[config_index + 1]) = Groups(old)
        /\ (pc = "counted" /\ pc' \notin {"except", "exited"}) =>
             Appended(Groups(results[config_index + 1]), Groups(results'[config_index + 1]))
      ]_vars

----------------------------------------------------------------------------
(* Claims about the default test_execution *)

StartPacketWritten == InSeq("target_serial.write", calls')

\* C28: in the default execution the start packet is sent only after cs.arm()
\* returned without error, the over-temperature poll returned false and
\* trigger_safe read true, in that order; no start packet is sent in an
\* attempt that ends as skipped or that raises during arming or during the
\* trigger-safe check.  Each step of the attempt is entered only from the one
\* before it, with that one's outcome.
C28_StartAfterChecks ==
    [][ /\ pc' = "temp" =>
             \/ pc = "arm" /\ calls' = <<"cs.arm">> /\ cs_armed'
                  /\ catched_errors' = catched_errors
             \/ pc = "temp" /\ calls' = <<"cs.temps_too_high: True", "sleep">>
        /\ pc' = "safe" => (pc = "temp" /\ calls' = <<"cs.temps_too_high: False">>)
        /\ pc' = "send" => (pc = "safe" /\ calls' = <<"cs.trigger_safe: True">>)
        /\ (pc' = "ack" \/ (StartPacketWritten /\ pc \in {"arm", "temp", "safe", "send"})) =>
             (pc = "send" /\ calls' = <<"target_serial.write">>)
        /\ (pc \in {"arm", "safe"} /\ pc' \in {"classified", "except"}) => ~StartPacketWritten
      ]_vars

\* C28: the start packet was written by an armed ChipShouter
C28_Witness ==
    pc = "ack" /\ calls = <<"target_serial.write">> /\ cs_armed /\ execution_index = 1

\* the frames the target may have sent when the response is read
ResponseFrames == GoodFrames \cup UnreadableFrames \cup StrayFrames

\* C29: after the start packet, if wait_ack does not return OK no response
\* packet is read and the attempt goes through crashHandler (a reset is
\* attempted; the category is crashes); if the ack is OK and read_packet
\* raises, the attempt likewise goes through crashHandler; only a cleanly read
\* packet is passed to handlePacket, and the category handlePacket returns is
\* the attempt's result.
C29_AckReadDispatch ==
    [][ /\ (pc = "ack" /\ pc' # "exited") =>
             /\ ~InSeq("target_serial.read_packet", calls')
             /\ IF calls' = <<"target_serial.read">> THEN pc' = "read"
                ELSE calls' = <<"target_serial.read", "target_serial.flush">> /\ pc' = "crash"
        /\ pc' = "read" => (pc = "ack" /\ calls' = <<"target_serial.read">>)
        /\ (pc = "read" /\ pc' # "exited") =>
             /\ calls' = <<"target_serial.read_packet">>
             /\ \E frame \in ResponseFrames : \E r \in {read_packet(serial_rx \o frame)} :
                  IF r.exc = NoExc
                  THEN pc' = "dispatch" /\ attempt' = [cmd |-> r.cmd, data |-> r.data]
                  ELSE pc' = "crash" /\ attempt' = None
        /\ pc' = "crash" => pc \in {"ack", "read"}
        /\ pc' = "dispatch" => pc = "read"
        /\ (pc = "crash" /\ pc' # "exited") =>
             /\ \E answer \in ResetAnswers : calls' = reset_target(answer).calls
             /\ Len(calls') > 0
             /\ IF exc' = None
                THEN pc' = "classified" /\ attempt' = Classified("crashes", None)
                ELSE pc' = "except" /\ exc' = ResetTimeoutError
        /\ (pc = "dispatch" /\ pc' # "exited") =>
             \E r \in handlePacket(attempt.cmd) :
                /\ calls' = r.calls
                /\ Matching(attempt.cmd) # <<>> => calls'[1] = Matching(attempt.cmd)[1].handler
                /\ IF r.exc = None
                   THEN pc' = "classified" /\ attempt' = r.val
                   ELSE pc' = "except" /\ exc' = r.exc
        /\ pc' = "classified" => pc \in {"arm", "crash", "dispatch"}
      ]_vars

\* C29: the ack was missing, the target was reset and the attempt is a crash
C29_WitnessNoAck ==
    /\ pc = "classified" /\ attempt = Classified("crashes", None)
    /\ calls = reset_target(1).calls
    /\ serial_rx = <<>>

\* C29: the category of the attempt is the one the caller's handler returned
\* for the packet read
C29_Witness ==
    /\ pc = "classified"
    /\ attempt = Classified("faults", Dict(SamplePayload))
    /\ calls = <<"custom">>

----------------------------------------------------------------------------
(* Claims about a target reset that timed out *)

\* the except block handles the error of a reset_target that used up its
\* retries during the attempt, with retries of the execution left
ResetTimedOut ==
    /\ pc = "except" /\ pc' # "exited"
    /\ Unwrap(exc) = ResetTimeoutError
    /\ RetriesLeft(retry_count)

\* the first calls of tier 2, lines 519-521
Tier2Begins ==
    /\ Len(calls') >= 3
    /\ SubSeq(calls', 1, 3) = <<"cs.disarm", "cw.power_cycle_usb", "TargetSerial">>

\* C30: when reset_target uses up its retries during an attempt (on the crash
\* path or in the default fault handler), the error is handled as the known
\* target-reset-timed-out error by tier 2 and is not propagated as a fatal
\* unknown error.
C30_ResetTimeoutIsTier2 ==
    [][ ResetTimedOut =>
          /\ Tier2Begins
          /\ ~(pc' = "abort" /\ exc' = ResetTimeoutError /\ calls' = <<>>) ]_vars

----------------------------------------------------------------------------
(* Claims about a replacement of test_execution *)

\* a (next_execution_index, category) pair of an int and a registered category
PairReturned(a) ==
    /\ "returned" \in DOMAIN a /\ a.returned # None
    /\ a.returned.t = "tuple" /\ Len(a.returned.v) = 2
    /\ a.returned.v[1].t = "int" /\ a.returned.v[2].t = "str"
    /\ a.returned.v[2].v \in result_types

\* C31: a replacement execution function is counted by test_position exactly
\* like the default one: a replacement that returns (next_execution_index,
\* category) without extradata is accepted: its attempt does not end in an
\* exception.
C31_PairAccepted ==
    [][ (pc = "arm" /\ _test_execution # None /\ PairReturned(attempt')) =>
           (exc' = None /\ pc' # "except") ]_vars

----------------------------------------------------------------------------
(* Claims about the shape of the result sets *)

CounterKeys == {NumKey(t) : t \in result_types}

\* an array of num_positions non-negative integer counters
CounterArray(x) ==
    /\ x.t = "list"
    /\ Len(x.v) = Len(positions)
    /\ \A q \in 1..Len(x.v) : x.v[q] \in Nat

\* every num_<category> entry of every result set in res is a counter array
CounterArrays(res) ==
    \A c \in DOMAIN res : \A k \in CounterKeys :
        k \in DOMAIN res[c] /\ CounterArray(res[c][k])

\* C32: in every reachable state of a campaign, including after retry-budget
\* exhaustion and tier-2 recovery, each num_<category> entry of each config's
\* result set is an array of exactly num_positions non-negative integer
\* counters, and counters of positions other than the one being tested are
\* never changed by an attempt.
C32_CounterArraysKept ==
    [][ /\ CounterArrays(results')
        /\ \A c \in DOMAIN results : \A k \in CounterKeys : \A q \in 1..Len(positions) :
             q # position_index + 1 => results'[c][k].v[q] = results[c][k].v[q] ]_vars

----------------------------------------------------------------------------
(* Claims about the order of the attempts *)

\* the order of positions and configs: the position index never decreases,
\* the config index never decreases at a position, and the table is moved
\* only between the positions
PairsInOrder ==
    /\ position_index' \in {position_index, position_index + 1}
    /\ position_index' = position_index => config_index' \in {config_index, config_index + 1}
    /\ position_index' # position_index => pc' = "position"
    /\ config_index' # config_index => pc' \in {"config", "position"}
    /\ pc # "position" => ~InSeq("table.move_absolute", calls')
    /\ pc' = "arm" => (position_index' = position_index /\ config_index' = config_index)

\* within a (position, config) pair, whose loop starts at pc = "config"
ExecutionsInOrder == pc # "config" => execution_index' >= execution_index

\* C33: attempts are executed strictly sequentially in lexicographic order of
\* (position index, config index, execution index): every attempt of config c
\* at position p ends before any attempt of config c+1 at p starts, every
\* attempt at position p ends before the stage moves to position p+1, and
\* within a (position, config) pair the execution index never decreases.
C33_LexicographicOrder ==
    [][ pc' # "exited" => (PairsInOrder /\ ExecutionsInOrder) ]_vars

\* C33, for the execution index of the default test_execution only: a
\* replacement returns the next index itself and any int is taken
C33_OrderOfDefault ==
    [][ pc' # "exited" =>
          (PairsInOrder /\ (_test_execution = None => ExecutionsInOrder)) ]_vars

\* C33: the second position is tested by the default test_execution after the
\* first one
C33_Witness ==
    /\ _test_execution = None
    /\ pc = "classified" /\ position_index = 1 /\ execution_index = 1
    /\ results[1]["num_nofaults"] = List(<<1, 0>>)

----------------------------------------------------------------------------
(* Claims about the serial channel *)

\* the lengths k at which the first k bytes of s end with sequence
Matches(s, sequence) == {k \in 1..Len(s) : EndsWith(SubSeq(s, 1, k), sequence)}

\* the smallest of a non-empty set of numbers
Least(S) == CHOOSE k \in S : \A j \in S : k <= j

\* C34: read_until(sequence, timeout) returns exactly the bytes it consumed
\* from the transport, in order; it stops consuming immediately after the
\* first point at which the last len(sequence) bytes read equal sequence, so
\* the result ends with sequence if and only if the match occurred before the
\* timeout, and no byte after the match is consumed.
C34_ReadUntilStopsAtMatch ==
    [][ ("op" \in DOMAIN sent' /\ sent'.op = "read_until") =>
          LET result == received'.val
              delivered == SubSeq(transport, 1, sent'.arrived)
              matches == Matches(delivered, sent'.sequence)
          IN /\ result \o transport' = transport
             /\ IF matches # {}
                THEN Len(result) = Least(matches) /\ EndsWith(result, sent'.sequence)
                ELSE result = delivered /\ ~EndsWith(result, sent'.sequence) ]_vars

\* C34: the reset sequence was matched and two bytes that had arrived after it
\* were left in the transport
C34_Witness ==
    /\ cpc = "read until"
    /\ sent = [op |-> "read_until", sequence |-> <<1, 0>>, arrived |-> 4]
    /\ received.val = <<1, 0>>
    /\ transport = <<1, 0>>

\* C35: wait_for_sequence returns OK if and only if the len(sequence) bytes
\* read equal sequence, TIMEOUT when the read timed out without delivering
\* them, and MISMATCH when different bytes were received; the transport is
\* flushed if and only if the result is not OK and the flush-on-error policy
\* is enabled, and it is never flushed on OK.
C35_WaitForSequence ==
    [][ ("op" \in DOMAIN sent' /\ sent'.op = "wait_for_sequence") =>
          LET x == sent'.read
              code == received'.val
              equal == x # None /\ x.v = sent'.sequence
              flushed == InSeq("ser.flush", calls')
          IN /\ code = ErrOK <=> equal
             /\ x = None => code = ErrTimeout
             /\ (x # None /\ ~equal) => code = ErrCmd
             /\ flushed <=> (code # ErrOK /\ _flush_on_err)
             /\ flushed => transport' = <<>>
             /\ code = ErrOK => transport' = SubSeq(transport, Len(sent'.sequence) + 1,
                                                    Len(transport)) ]_vars

\* C35: other bytes than the sequence were received and the bytes waiting
\* behind them were flushed
C35_Witness ==
    /\ cpc = "waited" /\ _flush_on_err
    /\ sent = [op |-> "wait_for_sequence", sequence |-> <<1, 0>>, read |-> Bytes(<<1, 1>>)]
    /\ received.val = ErrCmd
    /\ calls = <<"ser.read_bytes", "ser.flush">>
    /\ transport = <<>>

\* C35: the read timed out and, flush_on_err being off, nothing was flushed
C35_WitnessTimeout ==
    /\ cpc = "waited" /\ ~_flush_on_err
    /\ sent = [op |-> "wait_for_sequence", sequence |-> <<1, 0>>, read |-> None]
    /\ received.val = ErrTimeout
    /\ calls = <<"ser.read_bytes">>
    /\ transport = <<1>>

----------------------------------------------------------------------------
(* Claims about the default packet handlers *)

\* handlePacket was called on a CSProfiler with the packets of __init__
DefaultDispatched == HandledPacket /\ simpleserial_config = DefaultSimpleSerialConfig

NoHandlerDefined == Exc("RuntimeError", "SimpleSerialPacket 115: no handler defined")

\* the fault handler reset the target before anything was returned, and
\* "faults" was returned only if the reset succeeded
ResetBeforeFaults ==
    /\ \E a \in 0..ResetRetries :
         /\ calls = <<"faultPacketHandler">> \o reset_target(a).calls
         /\ exc = reset_target(a).exc
    /\ Len(calls) > 1
    /\ IF exc = None THEN attempt.returned = Classified("faults", None)
       ELSE attempt.returned = None /\ exc = ResetTimeoutError

\* C36: a freshly constructed CSProfiler has handler bindings for the start,
\* no-fault, reset and fault commands ('s', 'e', 'r', 'f'); dispatching a
\* fault packet with the default fault handler invokes reset_target before the
\* category faults is returned, so a fault is counted only after that reset
\* succeeded.
C36_DefaultHandlers ==
    DefaultDispatched =>
        /\ attempt.cmd \in {CmdS, CmdE, CmdR, CmdF} =>
             (Matching(attempt.cmd) # <<>> /\ exc # NoHandlerDefined)
        /\ attempt.cmd = CmdF => ResetBeforeFaults

\* C36, with the start command as the code has it: its packet is registered
\* without a handler, and dispatching it raises 'no handler defined'
C36_HandlersButStart ==
    DefaultDispatched =>
        /\ attempt.cmd \in {CmdS, CmdE, CmdR, CmdF} => Matching(attempt.cmd) # <<>>
        /\ attempt.cmd = CmdS =>
             (exc = NoHandlerDefined /\ attempt.returned = None
                /\ calls = <<"SimpleSerialPacket.handler">>)
        /\ attempt.cmd = CmdE =>
             (exc = None /\ attempt.returned = Classified("nofaults", None)
                /\ calls = <<"nofaultPacketHandler">>)
        /\ attempt.cmd = CmdF => ResetBeforeFaults

\* C36: the fault handler reset the target, which answered on the second try,
\* and returned faults
C36_Witness ==
    /\ DefaultDispatched /\ attempt.cmd = CmdF
    /\ calls = <<"faultPacketHandler">> \o reset_target(2).calls
    /\ exc = None
    /\ attempt.returned = Classified("faults", None)

----------------------------------------------------------------------------
(* Claims about the registry of packets *)

\* valid_commands has exactly the commands of the packets of
\* simpleserial_config, each once, and not 0
RegistryConsistent ==
    /\ {valid_commands[i] : i \in 1..Len(valid_commands)}
         = {simpleserial_config[i].command : i \in 1..Len(simpleserial_config)}
    /\ \A i, j \in 1..Len(valid_commands) : valid_commands[i] = valid_commands[j] => i = j
    /\ \A i, j \in 1..Len(simpleserial_config) :
         simpleserial_config[i].command = simpleserial_config[j].command => i = j
    /\ ~InSeq(0, valid_commands)

\* a call that raised changed neither list
RaisingKeeps ==
    ("op" \in DOMAIN attempt' /\ attempt'.op = "addSimpleSerialCommand" /\ exc' # None) =>
        (simpleserial_config' = simpleserial_config /\ valid_commands' = valid_commands)

\* C37: after any sequence of addSimpleSerialCommand calls (succeeding or
\* failing, with or without overwrite) on a CSProfiler built with the default
\* packet set, valid_commands contains exactly the commands of the packets in
\* simpleserial_config, each exactly once, and never contains 0; a call that
\* raises leaves both lists unchanged.
C37_RegistryConsistent == []RegistryConsistent /\ [][RaisingKeeps]_vars

\* C37: a packet for 'c' was added and the packet of 'f' was then replaced
C37_Witness ==
    /\ "op" \in DOMAIN attempt /\ attempt.op = "addSimpleSerialCommand"
    /\ attempt.overwrite /\ exc = None
    /\ valid_commands = <<CmdS, CmdE, CmdR, CmdC, CmdF>>
    /\ simpleserial_config[5] = Packet(CmdF, "custom2")

----------------------------------------------------------------------------
(* Claims about the payload groups *)

\* the payload groups g of category k in the result set d: one group per
\* position at most, in increasing order of position_index, and no more
\* payloads in a group than attempts counted for the position
GroupsInOrder(d, k) ==
    LET g == d[k].v
    IN /\ \A i, j \in 1..Len(g) : i < j => g[i].position_index < g[j].position_index
       /\ \A i \in 1..Len(g) :
            /\ d[NumKey(k)].t = "list"
            /\ Len(g[i].data) <= d[NumKey(k)].v[g[i].position_index + 1]

\* C38: in every reachable state of a campaign, for each config and each
\* category that has a payload list, there is at most one payload group per
\* position_index, the groups appear in increasing position_index order, and
\* the length of a group's data array never exceeds
\* num_<category>[position_index].
C38_OneGroupPerPosition ==
    \A c \in DOMAIN results : \A k \in result_types \cap DOMAIN results[c] :
        GroupsInOrder(results[c], k)

----------------------------------------------------------------------------
(* Claims about termination *)

\* the calls of test_execution made for the pair stay within the budget:
\* one per execution and one per retry
CallsBounded ==
    test_execution_calls' > test_execution_calls =>
        test_execution_calls' <= glitch_configs[config_index + 1].num_executions + 3

\* run_campaign returned and a results file is written
ReturnedWithFile == pc = "done" /\ status \in {0, -1} /\ files # <<>>

\* SIGINT ended the process after the handler wrote the partial results
ExitedOnSigint == pc = "exited" /\ files # <<>> /\ files[Len(files)].partial

\* C39 (as stated): with the default execution function, test_position makes
\* at most num_executions + 3 calls of test_execution for each (position,
\* config) pair, and, when every call returns and the over-temperature
\* condition clears, run_campaign eventually returns with a results file
\* written.
C39_BoundedAndReturns == [][CallsBounded]_vars /\ <>ReturnedWithFile

\* C39 (amended): at most num_executions + 3 calls of test_execution for each
\* pair, and eventually either run_campaign returns with a results file
\* written or a SIGINT ends the process after its handler wrote a partial
\* results file.
C39_BoundedAndEnds == [][CallsBounded]_vars /\ <>(ReturnedWithFile \/ ExitedOnSigint)

\* the budget of a pair is used up: num_executions + 3 calls were made, and
\* the campaign returned
C39_Witness ==
    /\ ReturnedWithFile
    /\ test_execution_calls = glitch_configs[config_index + 1].num_executions + 3

----------------------------------------------------------------------------
(* Claims about the ChipShouter at the end of a campaign *)

\* C40: whenever run_campaign returns, with status 0 or with the abort status,
\* the pulse generator has been disarmed after the last arm() of the run: it
\* is not left armed once the campaign is over.
C40_DisarmedOnReturn == (pc = "done" /\ status \in {0, -1}) => ~cs_armed

====
